---------------------------- MODULE Spec2Model ----------------------------
(***************************************************************************)
(* TensorLog: the backward-chaining compiler of Program (tensorlog.py),    *)
(* its compiled-function cache, and the evaluation entry points.           *)
(*                                                                         *)
(* Program.compile, getPredictFunction, eval, evalGrad, evalSymbols and    *)
(* evalGradSymbols are translated from src/src/tensorlog.py.  The modules  *)
(* bpcompiler, funs, parser and matrixdb are not part of the sources; the  *)
(* parts of them that compile calls are modelled from the specification    *)
(* (rule bodies are chains of binary goals, compiled left to right).       *)
(***************************************************************************)
EXTENDS Integers, Sequences, FiniteSets, TLC

\* ------------------------------------------------------------------------
\* State of one Program object, of its callers and of the cross-compiler
\* ------------------------------------------------------------------------

VARIABLES
  function,      \* self.function, the compiled-function cache
  nextId,        \* identity given to the next Function object created
  ncalls,        \* number of API calls made so far
  last,          \* the last API call: arguments, outcome, function used
  evalCompiles,  \* per mode: compilations of (mode,0) that the lookups of
                 \* getPredictFunction/eval/evalGrad ran and that returned
  workers,       \* per worker thread: its position in eval/evalGrad, the
                 \* arguments of its call, the function it read, its output
  rules,         \* self.rules, per functor the rules in collection order
  params,        \* self.db.params, the trainable relations of the database
  constructed,   \* which constructor built the program object, if any
  xc,            \* the cross-compiler: the expression it was given for the
                 \* inner function of a softmax and the expression it built
  maxDepth,      \* the maximum recursion depth that compile tests against
  crossCompiler, \* the fields of the theano CrossCompiler object
  builder        \* self.rules of the RuleBuilder, in the order of the adds


\* ------------------------------------------------------------------------
\* Program constants
\* ------------------------------------------------------------------------

\* tensorlog.py:15
NORMALIZE == TRUE

\* ------------------------------------------------------------------------
\* Bounds of the model
\* ------------------------------------------------------------------------

\* The maximum recursion depth (tensorlog.py:14).  It is a parameter of the
\* program: the source sets it to 10 and the experiment drivers to values
\* from 1 to 99.  The model is checked for a small depth bound; the rules
\* below are chosen so that every chain of nested compile calls runs past
\* the bound.
MAXDEPTH == 2

\* number of API calls made on one Program object
MaxCalls == 2

\* size of the entity vocabulary of the database
NumEntities == 3

Entities == 1..NumEntities

\* ------------------------------------------------------------------------
\* Relation store (matrixdb): binary relations as 0/1 adjacency matrices
\* ------------------------------------------------------------------------

\* relations stored in the database, with their facts
DBFacts ==
  [ q |-> {<<1, 2>>, <<2, 3>>},
    r |-> {<<1, 3>>, <<2, 1>>, <<2, 3>>},
    parent |-> {<<1, 2>>},
    sister |-> {<<2, 3>>} ]

\* the symbols of the entities: ann, bob, cara, then e4, e5, ...
EntityName(i) ==
  IF i = 1 THEN "ann" ELSE IF i = 2 THEN "bob" ELSE IF i = 3 THEN "cara"
  ELSE "e" \o ToString(i)

inDB(functor) == functor \in DOMAIN DBFacts

\* Vectors over the entities are sequences of length NumEntities.
\* the vector <<f[1], ..., f[n]>>
VecOf(f, n) == SubSeq(f, 1, n)

\* db.onehot(s)
onehot(s) == VecOf([i \in Entities |-> IF i = s THEN 1 ELSE 0], NumEntities)

ZeroVec == VecOf([i \in Entities |-> 0], NumEntities)

\* db.matrix(mode): the adjacency matrix of each stored relation
MatrixOf ==
  [rel \in DOMAIN DBFacts |->
     [i \in Entities |->
        [j \in Entities |-> IF <<i, j>> \in DBFacts[rel] THEN 1 ELSE 0]]]

RECURSIVE Dot(_, _, _, _)
\* sum over i in 1..n of v[i] * m[i][j]
Dot(v, m, j, n) ==
  IF n = 0 THEN 0 ELSE v[n] * m[n][j] + Dot(v, m, j, n - 1)

\* vector-matrix product  v . M_rel
VecMatMul(v, rel) ==
  VecOf([j \in Entities |-> Dot(v, MatrixOf[rel], j, NumEntities)], NumEntities)

RECURSIVE DotTransposed(_, _, _, _)
\* sum over i in 1..n of v[i] * m[j][i]
DotTransposed(v, m, j, n) ==
  IF n = 0 THEN 0 ELSE v[n] * m[j][n] + DotTransposed(v, m, j, n - 1)

\* vector-matrix product with the transposed matrix  v . M_rel^T
VecMatMulTransposed(v, rel) ==
  VecOf([j \in Entities |-> DotTransposed(v, MatrixOf[rel], j, NumEntities)],
        NumEntities)

VecAdd(v, w) == VecOf([i \in Entities |-> v[i] + w[i]], NumEntities)

\* ------------------------------------------------------------------------
\* Modes and the rule store (parser.RuleCollection)
\* ------------------------------------------------------------------------

\* ModeDeclaration for functor(i,o); the mode is identified by its key
ModeIO(functor) == [functor |-> functor, args |-> <<"i", "o">>]

\* ModeDeclaration for functor(o,i)
ModeOI(functor) == [functor |-> functor, args |-> <<"o", "i">>]

\* the mode of functor with the argument tags of mode
ModeLike(mode, functor) == [functor |-> functor, args |-> mode.args]

\* ModeDeclaration.isInput(0)
forward(mode) == mode.args[1] = "i"

getFunctor(mode) == mode.functor

getArity(mode) == Len(mode.args)

\* a chain of predicates longer than the depth bound:
\* c0 :- c1, c1 :- c2, ..., cMAXDEPTH :- u
ChainPred(i) == "c" \o ToString(i)

ChainRules ==
  [i \in 1..(MAXDEPTH + 1) |->
     [lhs |-> ChainPred(i - 1),
      rhs |-> IF i <= MAXDEPTH THEN <<ChainPred(i)>> ELSE <<"u">>]]

\* The rules of the program, in file order.  A rule
\*   lhs(X,Y) :- g1(X,Z1), g2(Z1,Z2), ..., gn(Z,Y)
\* is written as its head functor and the functors of its body goals.
\* p is directly recursive, a and b are mutually recursive, "u" has no rule
\* and is not in the database, t and the chain reach u.
Rules ==
  << [lhs |-> "p", rhs |-> <<"q">>],
     [lhs |-> "p", rhs |-> <<"r">>],
     [lhs |-> "p", rhs |-> <<"q", "p">>],
     [lhs |-> "s", rhs |-> <<"q", "r">>],
     [lhs |-> "t", rhs |-> <<"q">>],
     [lhs |-> "t", rhs |-> <<"s", "u">>],
     [lhs |-> "a", rhs |-> <<"q", "b">>],
     [lhs |-> "b", rhs |-> <<"r">>],
     [lhs |-> "b", rhs |-> <<"r", "a">>] >> \o ChainRules

\* the rules of each functor that has rules, in the order of the collection
RulesByFunctor ==
  [f \in {Rules[i].lhs : i \in DOMAIN Rules} |->
     SelectSeq(Rules, LAMBDA rule : rule.lhs = f)]

\* RuleCollection.rulesFor: the rules whose head matches the mode by
\* functor and arity, in the order of the collection
rulesFor(mode) ==
  IF getArity(mode) = 2 /\ getFunctor(mode) \in DOMAIN rules
  THEN rules[getFunctor(mode)]
  ELSE <<>>

\* Program.findPredDef
findPredDef(mode) == rulesFor(mode)

\* modes a caller asks for
TopModes == {ModeIO(f) : f \in {"p", "a", "s", "t", "u", "c0", "c1"}}

\* depths a caller passes to compile
Depths == {0, 1, MAXDEPTH + 1, MAXDEPTH + 2}

\* ------------------------------------------------------------------------
\* ProPPR rules: features and the rewrite that moves them into the body
\* (tensorlog.py:173-209)
\* ------------------------------------------------------------------------

RECURSIVE JoinArgs(_, _)
\* args[1],...,args[n] separated by commas
JoinArgs(args, n) ==
  IF n = 0 THEN ""
  ELSE IF n = 1 THEN args[1]
  ELSE JoinArgs(args, n - 1) \o "," \o args[n]

\* str(goal) of parser.Goal(functor, args)
GoalStr(functor, args) == functor \o "(" \o JoinArgs(args, Len(args)) \o ")"

\* parser.Goal(functor, args).  A body goal written with its variables is
\* kept as its string form; a body goal g of the chain convention of Rules
\* is kept as the functor g.
Goal(functor, args) == GoalStr(functor, args)

\* a feature of a rule, as parsed: a goal with its functor and arguments
Feature(functor, args) == [functor |-> functor, args |-> args]

\* str.upper() on the feature functors that occur
Upper == [f |-> "F", g |-> "G", all |-> "ALL", foo |-> "FOO"]

\* matrixdb.assignGoal(var, const)
assignGoal(var, const) == Goal("assign", <<var, const>>)

\* largest number of rules in the rule collection of a ProPPR program
MaxRules == 2

\* largest weight given to the constant feature f
MaxWeight == 3

\* Rules with features, as the parser delivers them:
\*   lhs :- rhs {features}   or   lhs :- rhs {features :- findall}
ProPPRRules ==
  { \* aunt(X,Y) :- parent(X,Z), sister(Z,Y) {f}
    [lhs |-> "aunt", rhs |-> <<"parent", "sister">>,
     features |-> <<Feature("f", <<>>)>>, findall |-> <<>>],
    \* k(X,Y) :- q(X,Z), r(Z,Y) {g}
    [lhs |-> "k", rhs |-> <<"q", "r">>,
     features |-> <<Feature("g", <<>>)>>, findall |-> <<>>],
    \* k(X,Y) :- q(X,Y) {all(F) :- r(X,F)}
    [lhs |-> "k", rhs |-> <<"q">>,
     features |-> <<Feature("all", <<"F">>)>>,
     findall |-> <<Goal("r", <<"X", "F">>)>>],
    \* k(X,Y) :- r(X,Y) {all(G) :- q(X,Z), r(Z,G)}
    [lhs |-> "k", rhs |-> <<"r">>,
     features |-> <<Feature("all", <<"G">>)>>,
     findall |-> <<Goal("q", <<"X", "Z">>), Goal("r", <<"Z", "G">>)>>],
    \* m(X,Y) :- q(X,Y) {}
    [lhs |-> "m", rhs |-> <<"q">>, features |-> <<>>, findall |-> <<>>],
    \* m(X,Y) :- q(X,Y) {f,g}
    [lhs |-> "m", rhs |-> <<"q">>,
     features |-> <<Feature("f", <<>>), Feature("g", <<>>)>>,
     findall |-> <<>>],
    \* m(X,Y) :- q(X,Y) {all(F),g :- r(X,F)}
    [lhs |-> "m", rhs |-> <<"q">>,
     features |-> <<Feature("all", <<"F">>), Feature("g", <<>>)>>,
     findall |-> <<Goal("r", <<"X", "F">>)>>],
    \* m(X,Y) :- q(X,Y) {foo(F) :- r(X,F)}
    [lhs |-> "m", rhs |-> <<"q">>,
     features |-> <<Feature("foo", <<"F">>)>>,
     findall |-> <<Goal("r", <<"X", "F">>)>>],
    \* m(X,Y) :- q(X,Y) {all(F,G) :- r(X,F)}
    [lhs |-> "m", rhs |-> <<"q">>,
     features |-> <<Feature("all", <<"F", "G">>)>>,
     findall |-> <<Goal("r", <<"X", "F">>)>>] }

RECURSIVE SeqsUpTo(_, _)
\* the sequences over S of length 1..n
SeqsUpTo(S, n) ==
  IF n = 0 THEN {}
  ELSE LET shorter == SeqsUpTo(S, n - 1) IN
         {<<x>> : x \in S} \cup shorter
           \cup {Append(sq, x) : sq \in shorter, x \in S}

\* rule collections a ProPPR program is constructed from
RuleCollections == SeqsUpTo(ProPPRRules, MaxRules)

\* the symbols that have a weight: the entities and the constant features
WeightedSymbols == {EntityName(i) : i \in Entities} \cup {"f", "g"}

\* weight vectors passed to the constructor
WeightTables ==
  {[sym \in WeightedSymbols |-> IF sym = "f" THEN w ELSE 1] : w \in 1..MaxWeight}

\* outcome of the rewrite of one rule, or of the whole collection
Rewritten(rule) == [err |-> FALSE, rule |-> rule]

AssertionFailed == [err |-> TRUE, rule |-> <<>>]

\* parser.Rule(lhs, rhs): a rule without features
Rule(lhs, rhs) == [lhs |-> lhs, rhs |-> rhs]

\* _moveFeaturesToRHS without the tests on the number and form of features
moveFeaturesToRHSNoAssert(rule0) ==
  IF Len(rule0.features) = 0 THEN AssertionFailed
  ELSE IF rule0.findall = <<>> THEN
    Rewritten(Rule(rule0.lhs,
                   Append(Append(rule0.rhs,
                                 assignGoal(Upper[rule0.features[1].functor],
                                            rule0.features[1].functor)),
                          Goal("weighted", <<Upper[rule0.features[1].functor]>>))))
  ELSE
    Rewritten(Rule(rule0.lhs,
                   Append(rule0.rhs \o rule0.findall,
                          Goal("weighted", <<rule0.features[1].args[1]>>))))

\* _moveFeaturesToRHS appending the weighted goal before the other goals
moveFeaturesToRHSWeightedFirst(rule0) ==
  IF rule0.findall = <<>> THEN
    IF Len(rule0.features) # 1 THEN AssertionFailed
    ELSE
      Rewritten(Rule(rule0.lhs,
                     Append(Append(rule0.rhs,
                                   Goal("weighted", <<Upper[rule0.features[1].functor]>>)),
                            assignGoal(Upper[rule0.features[1].functor],
                                       rule0.features[1].functor))))
  ELSE
    IF Len(rule0.features) # 1 THEN AssertionFailed
    ELSE IF ~(Len(rule0.features[1].args) = 1 /\ rule0.features[1].functor = "all")
    THEN AssertionFailed
    ELSE
      Rewritten(Rule(rule0.lhs,
                     (rule0.rhs \o <<Goal("weighted", <<rule0.features[1].args[1]>>)>>)
                        \o rule0.findall))

\* _moveFeaturesToRHS leaving the weight of a constant feature out
moveFeaturesToRHSNoWeighted(rule0) ==
  IF rule0.findall = <<>> THEN
    IF Len(rule0.features) # 1 THEN AssertionFailed
    ELSE
      Rewritten(Rule(rule0.lhs,
                     Append(rule0.rhs,
                            assignGoal(Upper[rule0.features[1].functor],
                                       rule0.features[1].functor))))
  ELSE
    IF Len(rule0.features) # 1 THEN AssertionFailed
    ELSE IF ~(Len(rule0.features[1].args) = 1 /\ rule0.features[1].functor = "all")
    THEN AssertionFailed
    ELSE
      Rewritten(Rule(rule0.lhs,
                     Append(rule0.rhs \o rule0.findall,
                            Goal("weighted", <<rule0.features[1].args[1]>>))))

\* ProPPRProgram._moveFeaturesToRHS (tensorlog.py:190-209)
moveFeaturesToRHS(rule0) ==
  IF rule0.findall = <<>> THEN
    \* parsed format is {f1,f2,...} but only {f1} is supported
    IF Len(rule0.features) # 1 THEN AssertionFailed
    ELSE
      Rewritten(Rule(rule0.lhs,
                     Append(Append(rule0.rhs,
                                   assignGoal(Upper[rule0.features[1].functor],
                                              rule0.features[1].functor)),
                            Goal("weighted", <<Upper[rule0.features[1].functor]>>))))
  ELSE
    \* format is {all(F) :- ...}
    IF Len(rule0.features) # 1 THEN AssertionFailed
    ELSE IF ~(Len(rule0.features[1].args) = 1 /\ rule0.features[1].functor = "all")
    THEN AssertionFailed
    ELSE
      Rewritten(Rule(rule0.lhs,
                     Append(rule0.rhs \o rule0.findall,
                            Goal("weighted", <<rule0.features[1].args[1]>>))))

\* The rule object rule0 after _moveFeaturesToRHS(rule0) returned rule.
\* parser.Rule(rule0.lhs, rule0.rhs) keeps the list object it is given as
\* the body of the new rule, so the goals appended to rule.rhs
\* (tensorlog.py:197-198, 205-206) are appended to the one list that is
\* also rule0.rhs; the head, features and findall of rule0 are only read.
originalAfter(rule0, rule) == [rule0 EXCEPT !.rhs = rule.rhs]

RECURSIVE mapRules(_, _)
\* RuleCollection.mapRules(_moveFeaturesToRHS) on the rules rules0[1..n],
\* in the order of the collection; a failed assertion ends the pass.
\* originals are the rule objects that were passed in, as they are after
\* the pass.
mapRules(rules0, n) ==
  LET addRule(done, r) ==
        IF done.err \/ r.err
        THEN [err |-> TRUE, rules |-> <<>>,
              originals |-> Append(done.originals, rules0[n])]
        ELSE [err |-> FALSE, rules |-> Append(done.rules, r.rule),
              originals |-> Append(done.originals,
                                   originalAfter(rules0[n], r.rule))]
  IN IF n = 0 THEN [err |-> FALSE, rules |-> <<>>, originals |-> <<>>]
     ELSE addRule(mapRules(rules0, n - 1), moveFeaturesToRHS(rules0[n]))

\* the rules of each functor that has rules, in the order of the collection
indexRules(rs) ==
  [f \in {rs[i].lhs : i \in DOMAIN rs} |-> SelectSeq(rs, LAMBDA rule : rule.lhs = f)]

\* the body goals that are written with their variables, by string form
GoalTable ==
  LET vars3 == {"X", "Z", "F", "G", "FOO", "ALL"}
      consts == {"f", "g", "all", "foo"}
      goals == {[functor |-> "assign", args |-> <<v, c>>] : v \in vars3, c \in consts}
                 \cup {[functor |-> "weighted", args |-> <<v>>] : v \in vars3}
                 \cup {[functor |-> rel, args |-> <<v, w>>] :
                         rel \in {"q", "r"}, v \in vars3, w \in vars3}
  IN [str \in {GoalStr(g.functor, g.args) : g \in goals} |->
        CHOOSE g \in goals : GoalStr(g.functor, g.args) = str]

\* modes a caller of a ProPPR program asks for
ProPPRModes == {ModeIO(f) : f \in {"aunt", "k"}}

\* ------------------------------------------------------------------------
\* Functions (funs): NullFunction, OpSeqFunction, SumFunction,
\* NormalizedFunction.  Every object carries the identity it was
\* allocated with.
\* ------------------------------------------------------------------------

NoFun == [kind |-> "None"]

NullFunction(id, mode) == [kind |-> "Null", id |-> id, mode |-> mode]

OpSeqFunction(id, rule, ops) ==
  [kind |-> "OpSeq", id |-> id, rule |-> rule, ops |-> ops]

SumFunction(id, ruleFuns) == [kind |-> "Sum", id |-> id, funs |-> ruleFuns]

NormalizedFunction(id, fun) == [kind |-> "Norm", id |-> id, fun |-> fun]

\* operators of an OpSeqFunction
VecMatMulOp(rel) == [op |-> "VecMatMul", rel |-> rel]

DefinedPredOp(fun) == [op |-> "DefinedPred", fun |-> fun]

\* product with the transposed matrix, for a goal whose second argument
\* is the input
VecMatMulTransposedOp(rel) == [op |-> "VecMatMulTransposed", rel |-> rel]

\* dst is bound to the one-hot vector of the constant
AssignOnehotOp(dst, const) == [op |-> "AssignOnehot", dst |-> dst, const |-> const]

\* dst is bound to the product of the variable src and the matrix of rel
VarMatMulOp(dst, src, rel) == [op |-> "VarMatMul", dst |-> dst, src |-> src, rel |-> rel]

\* the output is multiplied by the weight of what the variable weighter holds
WeightedVecOp(weighter) == [op |-> "WeightedVec", weighter |-> weighter]

\* the operator of a body goal that is written with its variables
goalOp(goal) ==
  IF goal.functor = "assign" THEN AssignOnehotOp(goal.args[1], goal.args[2])
  ELSE IF goal.functor = "weighted" THEN WeightedVecOp(goal.args[1])
  ELSE VarMatMulOp(goal.args[2], goal.args[1], goal.functor)

\* ------------------------------------------------------------------------
\* The compiled-function cache  self.function : (mode,depth) -> Function
\* ------------------------------------------------------------------------

\* AbstractDeclaration.__init__:  self._key = str(goal)
modeKey(mode) == GoalStr(mode.functor, mode.args)

\* hash(str): a function of the string under which different strings can
\* have the same hash
strHash(str) ==
  IF str \in {GoalStr(f, a) : f \in {"p", "a", "c0"},
                              a \in {<<"i", "o">>, <<"o", "i">>}}
  THEN "h1" ELSE "h2"

\* AbstractDeclaration.__hash__
modeHash(mode) == strHash(modeKey(mode))

\* __eq__ as inherited from object: the same object
modeEqIdentity(mode, other) == mode = other

\* AbstractDeclaration.__eq__
modeEq(mode, other) == modeKey(mode) = modeKey(other)

\* hash and equality of the tuple (mode, depth)
keyHash(key) == <<key[2], modeHash(key[1])>>

keyEq(key, other) ==
  \/ key = other
  \/ key[2] = other[2] /\ modeEq(key[1], other[1])

\* the keys of the dict that a lookup of key finds: the key object itself
\* if it is in the dict, else the keys with its hash that are equal to it
\* (a key of another depth has another hash)
dictFind(fn, key) ==
  IF key \in DOMAIN fn THEN {key}
  ELSE {k \in DOMAIN fn : k[2] = key[2] /\ keyHash(k) = keyHash(key) /\ keyEq(k, key)}

\* key in self.function
dictHas(fn, key) == dictFind(fn, key) # {}

\* self.function[key]
dictGet(fn, key) == fn[CHOOSE k \in dictFind(fn, key) : TRUE]

\* self.function[key] = val: an entry with an equal key keeps its key
\* object and gets the value
Put(fn, key, val) ==
  IF dictHas(fn, key)
  THEN [fn EXCEPT ![CHOOSE k \in dictFind(fn, key) : TRUE] = val]
  ELSE (key :> val) @@ fn

EmptyCache == <<>>


\* ------------------------------------------------------------------------
\* Program.compile (tensorlog.py:72-95)
\* ------------------------------------------------------------------------

Max(x, y) == IF x >= y THEN x ELSE y

\* CompileBranch with the depth test off by one
CompileBranchOffByOne(mode, depth) ==
  IF depth > maxDepth + 1 THEN "null"
  ELSE IF Len(findPredDef(mode)) = 0 THEN "fail"
  ELSE IF Len(findPredDef(mode)) = 1 THEN "single"
  ELSE "sum"

\* CompileBranch looking up the rules before testing the depth
CompileBranchRulesFirst(mode, depth) ==
  IF Len(findPredDef(mode)) = 0 THEN "fail"
  ELSE IF depth > maxDepth THEN "null"
  ELSE IF Len(findPredDef(mode)) = 1 THEN "single"
  ELSE "sum"

\* CompileBranch recovering from a mode without rules
CompileBranchNoAssert(mode, depth) ==
  IF depth > maxDepth THEN "null"
  ELSE IF Len(findPredDef(mode)) = 0 THEN "null"
  ELSE IF Len(findPredDef(mode)) = 1 THEN "single"
  ELSE "sum"

\* CompileBranch building a one-term sum for a single rule
CompileBranchAlwaysSum(mode, depth) ==
  IF depth > maxDepth THEN "null"
  ELSE IF Len(findPredDef(mode)) = 0 THEN "fail"
  ELSE "sum"

\* tensorlog.py:77-88: which arm of compile is taken for (mode, depth)
CompileBranch(mode, depth) ==
  IF depth > maxDepth THEN "null"
  ELSE IF Len(findPredDef(mode)) = 0 THEN "fail"
  ELSE IF Len(findPredDef(mode)) = 1 THEN "single"
  ELSE "sum"

\* outcome of a compile call that raised at key: the cache as it was left
Raised(fn, nid, key, maxd, calls) ==
  [function |-> fn, nextId |-> nid, err |-> TRUE, failedAt |-> key,
   res |-> NoFun, maxd |-> maxd, calls |-> calls]

\* outcome of a compile call that returned res
Returned(fn, nid, res, maxd, calls) ==
  [function |-> fn, nextId |-> nid, err |-> FALSE, failedAt |-> <<>>,
   res |-> res, maxd |-> maxd, calls |-> calls]

\* normalizeTop wrapping the entry of every depth
normalizeTopAnyDepth(fn, nid, mode, depth) ==
  IF NORMALIZE
  THEN [function |-> Put(fn, <<mode, depth>>,
                         NormalizedFunction(nid, dictGet(fn, <<mode, depth>>))),
        nextId |-> nid + 1]
  ELSE [function |-> fn, nextId |-> nid]

\* tensorlog.py:93-94: the top-level entry is wrapped when normalizing
normalizeTop(fn, nid, mode, depth) ==
  IF depth = 0 /\ NORMALIZE
  THEN [function |-> Put(fn, <<mode, 0>>, NormalizedFunction(nid, dictGet(fn, <<mode, 0>>))),
        nextId |-> nid + 1]
  ELSE [function |-> fn, nextId |-> nid]

\* sumOfRules losing the function of the first rule
sumOfRulesDropFirst(id, ruleFuns) == SumFunction(id, Tail(ruleFuns))

\* tensorlog.py:92: the sum of the rule functions, in the order compiled
sumOfRules(id, ruleFuns) == SumFunction(id, ruleFuns)

RECURSIVE compile(_, _, _, _)
RECURSIVE compileGoals(_, _, _, _, _, _)
RECURSIVE compileRules(_, _, _, _, _, _)

\* BPCompiler: the goals rhs[1..n] of a rule body, left to right.  A goal
\* on a database relation becomes a vector-matrix product; a goal on a
\* defined predicate is compiled at depth+1 and its function is inlined.
\* A goal written with its variables (an assignment, a weighted goal, a
\* findall goal) becomes the operator that binds or uses the variable.
\* For a mode whose input is the second argument the chain is walked from
\* its last goal to its first, with transposed matrices.
\* A goal that raises ends the walk.
compileGoals(fn, nid, mode, depth, rhs, n) ==
  LET inlineGoal(g, c) ==
        [function |-> c.function, nextId |-> c.nextId, err |-> c.err,
         failedAt |-> c.failedAt,
         ops |-> IF c.err THEN g.ops ELSE Append(g.ops, DefinedPredOp(c.res)),
         maxd |-> Max(g.maxd, c.maxd), calls |-> g.calls + c.calls]
      addGoal(g) ==
        IF g.err THEN g
        ELSE IF rhs[n] \in DOMAIN GoalTable THEN
          [g EXCEPT !.ops = Append(@, goalOp(GoalTable[rhs[n]]))]
        ELSE IF inDB(rhs[n]) THEN
          [g EXCEPT !.ops = Append(@, IF forward(mode) THEN VecMatMulOp(rhs[n])
                                      ELSE VecMatMulTransposedOp(rhs[n]))]
        ELSE
          inlineGoal(g, compile(g.function, g.nextId, ModeLike(mode, rhs[n]),
                                depth + 1))
  IN
    IF n = 0 THEN
      [function |-> fn, nextId |-> nid, err |-> FALSE, failedAt |-> <<>>,
       ops |-> <<>>, maxd |-> depth, calls |-> 0]
    ELSE
      addGoal(compileGoals(fn, nid, mode, depth, rhs, n - 1))

RECURSIVE Reverse(_)
Reverse(sq) == IF sq = <<>> THEN <<>> ELSE Append(Reverse(Tail(sq)), Head(sq))

\* the order in which the goals of a body pass the message on
goalOrder(mode, rhs) == IF forward(mode) THEN rhs ELSE Reverse(rhs)

\* bpcompiler.BPCompiler(mode,self,depth,rule).getFunction()
BPCompilerGetFunction(fn, nid, mode, depth, rule) ==
  LET ofGoals(g) ==
        IF g.err THEN
          [function |-> g.function, nextId |-> g.nextId, err |-> TRUE,
           failedAt |-> g.failedAt, fun |-> NoFun, maxd |-> g.maxd,
           calls |-> g.calls]
        ELSE
          [function |-> g.function, nextId |-> g.nextId + 1, err |-> FALSE,
           failedAt |-> <<>>, fun |-> OpSeqFunction(g.nextId, rule, g.ops),
           maxd |-> g.maxd, calls |-> g.calls]
  IN
    ofGoals(compileGoals(fn, nid, mode, depth, goalOrder(mode, rule.rhs),
                         Len(rule.rhs)))

\* tensorlog.py:91: map(lambda r: BPCompiler(mode,self,depth,r).getFunction(),
\* predDef), for the rules predDef[1..n]; a rule that raises ends the map
compileRules(fn, nid, mode, depth, predDef, n) ==
  LET appendRule(rs, c) ==
        [function |-> c.function, nextId |-> c.nextId, err |-> c.err,
         failedAt |-> c.failedAt,
         funs |-> IF c.err THEN rs.funs ELSE Append(rs.funs, c.fun),
         maxd |-> Max(rs.maxd, c.maxd), calls |-> rs.calls + c.calls]
      addRule(rs) ==
        IF rs.err THEN rs
        ELSE appendRule(rs, BPCompilerGetFunction(rs.function, rs.nextId, mode,
                                                  depth, predDef[n]))
  IN
    IF n = 0 THEN
      [function |-> fn, nextId |-> nid, err |-> FALSE, failedAt |-> <<>>,
       funs |-> <<>>, maxd |-> depth, calls |-> 0]
    ELSE
      addRule(compileRules(fn, nid, mode, depth, predDef, n - 1))

\* tensorlog.py:77-92: everything compile does before the depth-0 wrapper;
\* the entry for (mode, depth) is bound to the function just built
compileRaw(fn, nid, mode, depth) ==
  LET key == <<mode, depth>>
      branch == CompileBranch(mode, depth)
      predDef == findPredDef(mode)
      bindSingle(c) ==
        IF c.err
        THEN Raised(c.function, c.nextId, c.failedAt, c.maxd, c.calls + 1)
        ELSE Returned(Put(c.function, key, c.fun), c.nextId, c.fun,
                      c.maxd, c.calls + 1)
      bindSum(rs) ==
        IF rs.err
        THEN Raised(rs.function, rs.nextId, rs.failedAt, rs.maxd, rs.calls + 1)
        ELSE Returned(Put(rs.function, key, sumOfRules(rs.nextId, rs.funs)),
                      rs.nextId + 1, sumOfRules(rs.nextId, rs.funs),
                      rs.maxd, rs.calls + 1)
  IN
    CASE branch = "null" ->
           Returned(Put(fn, key, NullFunction(nid, mode)), nid + 1,
                    NullFunction(nid, mode), depth, 1)
      [] branch = "fail" ->
           Raised(fn, nid, key, depth, 1)
      [] branch = "single" ->
           bindSingle(BPCompilerGetFunction(fn, nid, mode, depth, predDef[1]))
      [] branch = "sum" ->
           bindSum(compileRules(fn, nid, mode, depth, predDef, Len(predDef)))

\* compile reusing an entry it finds in the cache, then wrapping it again
compileMemoThenWrap(fn, nid, mode, depth) ==
  LET returnEntry(c, n) ==
        Returned(n.function, n.nextId, dictGet(n.function, <<mode, depth>>),
                 c.maxd, c.calls)
      wrapTop(c) ==
        IF c.err \/ CompileBranch(mode, depth) = "null" THEN c
        ELSE returnEntry(c, normalizeTop(c.function, c.nextId, mode, depth))
  IN
    IF dictHas(fn, <<mode, depth>>)
    THEN wrapTop(Returned(fn, nid, dictGet(fn, <<mode, depth>>), depth, 1))
    ELSE wrapTop(compileRaw(fn, nid, mode, depth))

\* Program.compile(mode, depth): returns self.function[(mode,depth)]
compile(fn, nid, mode, depth) ==
  LET returnEntry(c, n) ==
        Returned(n.function, n.nextId, dictGet(n.function, <<mode, depth>>),
                 c.maxd, c.calls)
      wrapTop(c) ==
        IF c.err \/ CompileBranch(mode, depth) = "null" THEN c
        ELSE returnEntry(c, normalizeTop(c.function, c.nextId, mode, depth))
  IN
    wrapTop(compileRaw(fn, nid, mode, depth))

\* ------------------------------------------------------------------------
\* Evaluation of Functions (funs.Function.eval)
\*
\* The output of a function is a value [level, vec].  level = 0: vec is
\* the exact vector.  level = k > 0: the vector is the k-fold masked
\* softmax of vec, where vec is shifted so that its least nonzero entry is
\* 1 (the softmax is invariant under shifts of its support), so that two
\* values are equal exactly when the real vectors they denote are equal.
\* ------------------------------------------------------------------------

Exact(vec) == [level |-> 0, vec |-> vec]

Support(vec) == {i \in Entities : vec[i] # 0}

MinOver(S, vec) == CHOOSE m \in {vec[i] : i \in S} : \A i \in S : m <= vec[i]

Shifted(vec) ==
  LET m == MinOver(Support(vec), vec) IN
    VecOf([i \in Entities |-> IF vec[i] = 0 THEN 0 ELSE vec[i] - m + 1],
          NumEntities)

\* NormalizedFunction: softmax over the nonzero entries, zeros stay zero.
\* The all-zero vector stays all-zero; a single nonzero entry becomes 1.
Softmax(val) ==
  LET supp == Support(val.vec) IN
    IF Cardinality(supp) <= 1
    THEN Exact(VecOf([i \in Entities |-> IF i \in supp THEN 1 ELSE 0],
                     NumEntities))
    ELSE [level |-> val.level + 1,
          vec |-> IF val.level = 0 THEN Shifted(val.vec) ELSE val.vec]

RECURSIVE VarMsg(_, _, _, _)
\* what the variable var holds after the operators ops[1..n] on input v:
\* the input for the head variable X, a constant, or a vector
VarMsg(ops, n, var, v) ==
  IF var = "X" THEN [kind |-> "vec", vec |-> v]
  ELSE IF n = 0 THEN [kind |-> "vec", vec |-> ZeroVec]
  ELSE IF ops[n].op = "AssignOnehot" /\ ops[n].dst = var
       THEN [kind |-> "const", const |-> ops[n].const]
  ELSE IF ops[n].op = "VarMatMul" /\ ops[n].dst = var
       THEN [kind |-> "vec",
             vec |-> VecMatMul(VarMsg(ops, n - 1, ops[n].src, v).vec, ops[n].rel)]
  ELSE VarMsg(ops, n - 1, var, v)

RECURSIVE WeightSum(_, _)
\* sum over i in 1..n of vec[i] times the weight of entity i
WeightSum(vec, n) ==
  IF n = 0 THEN 0
  ELSE vec[n] * params[<<"weighted", 1>>][EntityName(n)] + WeightSum(vec, n - 1)

\* the weight of what a variable holds, by the relation weighted/1
WeightOf(msg) ==
  IF msg.kind = "const" THEN params[<<"weighted", 1>>][msg.const]
  ELSE WeightSum(msg.vec, NumEntities)

Scale(vec, w) == VecOf([i \in Entities |-> vec[i] * w], NumEntities)

RECURSIVE EvalVec(_, _)
RECURSIVE EvalOps(_, _, _)
RECURSIVE EvalSum(_, _, _)

\* OpSeqFunction: the operators ops[1..n] in list order, each applied to
\* the message produced by the one before it
EvalOps(ops, n, v) ==
  IF n = 0 THEN v
  ELSE IF ops[n].op = "VecMatMul"
       THEN VecMatMul(EvalOps(ops, n - 1, v), ops[n].rel)
  ELSE IF ops[n].op = "VecMatMulTransposed"
       THEN VecMatMulTransposed(EvalOps(ops, n - 1, v), ops[n].rel)
  ELSE IF ops[n].op \in {"AssignOnehot", "VarMatMul"}
       THEN EvalOps(ops, n - 1, v)
  ELSE IF ops[n].op = "WeightedVec"
       THEN Scale(EvalOps(ops, n - 1, v),
                  WeightOf(VarMsg(ops, n - 1, ops[n].weighter, v)))
       ELSE EvalVec(ops[n].fun, EvalOps(ops, n - 1, v))

\* SumFunction: the elementwise sum of the outputs of ruleFuns[1..n]
EvalSum(ruleFuns, n, v) ==
  IF n = 0 THEN ZeroVec
  ELSE VecAdd(EvalSum(ruleFuns, n - 1, v), EvalVec(ruleFuns[n], v))

\* output of an unnormalized function on input v
EvalVec(fun, v) ==
  CASE fun.kind = "Null" -> ZeroVec
    [] fun.kind = "OpSeq" -> EvalOps(fun.ops, Len(fun.ops), v)
    [] fun.kind = "Sum" -> EvalSum(fun.funs, Len(fun.funs), v)

RECURSIVE EvalFun(_, _)
\* fun.eval(db, inputs)
EvalFun(fun, v) ==
  IF fun.kind = "Norm" THEN Softmax(EvalFun(fun.fun, v))
  ELSE Exact(EvalVec(fun, v))

\* input vectors callers pass to eval and evalGrad
Inputs == {onehot(2), VecAdd(onehot(1), onehot(2))}

\* symbols callers pass to evalSymbols and evalGradSymbols
QuerySymbols == {1}

\* ------------------------------------------------------------------------
\* State of one Program object and of its caller
\* ------------------------------------------------------------------------

vars == <<function, nextId, ncalls, last, evalCompiles, workers,
         rules, params, constructed, xc, maxDepth, crossCompiler, builder>>

\* number of worker threads sharing the Program object
NumWorkers == 2

Workers == 1..NumWorkers

NoOut == [level |-> -1, vec |-> <<>>]

NoCall ==
  [op |-> "none", mode |-> ModeIO("none"), depth |-> 0, input |-> <<>>,
   err |-> FALSE, failedAt |-> <<>>, fun |-> NoFun, out |-> NoOut,
   compiled |-> FALSE, maxd |-> 0, calls |-> 0]

\* a worker thread that is not inside a call
IdleWorker ==
  [pc |-> "idle", op |-> "none", mode |-> ModeIO("none"), input |-> <<>>,
   fun |-> NoFun, out |-> NoOut, err |-> FALSE]

\* self.db.params of a database without trainable relations
NoParams == <<>>

\* a cross-compiler that was given no expression
NoXC == [subExpr |-> <<>>, result |-> <<>>, via |-> "none"]

\* CrossCompiler.__init__ (theanoxcomp.py:37-60): no name space given out,
\* no matrix variable, nothing compiled (the lists that are None until
\* compile sets them are empty here, thFun tells whether compile has set
\* them); numVars counts the theano variable objects created so far and
\* gives each its identity; dbKeys are the keys in the order compile went
\* through them
NewCrossCompiler ==
  [nameSpace |-> 0, dbMatrixExpr |-> <<>>, dbMatrixExprBinding |-> <<>>,
   exprArgs |-> <<>>, expr |-> [e |-> "None"], dbArgs |-> <<>>,
   dbVals |-> <<>>, dbKeys |-> <<>>, args |-> <<>>, thFun |-> "None",
   numVars |-> 0]

\* Program.__init__ (tensorlog.py:62-66)
Init ==
  /\ function = EmptyCache
  /\ nextId = 1
  /\ ncalls = 0
  /\ last = NoCall
  /\ evalCompiles = [m \in TopModes |-> 0]
  /\ workers = [w \in Workers |-> IdleWorker]
  /\ rules = RulesByFunctor
  /\ params = NoParams
  /\ constructed = [class |-> "Program", rules0 |-> Rules, weights |-> <<>>,
                    originals |-> Rules]
  /\ xc = NoXC
  /\ maxDepth = MAXDEPTH
  /\ crossCompiler = NewCrossCompiler
  /\ builder = <<>>

\* cacheMiss never finding the entry
cacheMissAlways(fn, mode) == TRUE

\* tensorlog.py:106,122,138:  (mode,0) not in self.function
cacheMiss(fn, mode) == ~dictHas(fn, <<mode, 0>>)

\* tensorlog.py:106-107,122-123,138-139: compile on a miss, then read the
\* depth-0 entry
lookup(fn, nid, mode) ==
  LET compiled(c) ==
        [function |-> c.function, nextId |-> c.nextId, err |-> c.err,
         failedAt |-> c.failedAt,
         fun |-> IF c.err THEN NoFun ELSE dictGet(c.function, <<mode, 0>>),
         compiled |-> TRUE, maxd |-> c.maxd, calls |-> c.calls]
  IN
    IF cacheMiss(fn, mode) THEN compiled(compile(fn, nid, mode, 0))
    ELSE
      [function |-> fn, nextId |-> nid, err |-> FALSE, failedAt |-> <<>>,
       fun |-> dictGet(fn, <<mode, 0>>), compiled |-> FALSE, maxd |-> 0, calls |-> 0]

\* Program.compile(mode, depth) called by the user
CallCompile(mode, depth) ==
  /\ ncalls < MaxCalls
  /\ LET returns(c) ==
         /\ function' = c.function
         /\ nextId' = c.nextId
         /\ last' = [op |-> "compile", mode |-> mode, depth |-> depth,
                     input |-> <<>>, err |-> c.err, failedAt |-> c.failedAt,
                     fun |-> c.res, out |-> NoOut, compiled |-> TRUE,
                     maxd |-> c.maxd, calls |-> c.calls]
     IN returns(compile(function, nextId, mode, depth))
  /\ ncalls' = ncalls + 1
  /\ UNCHANGED <<evalCompiles, workers>>
  /\ UNCHANGED <<rules, params, constructed, xc, maxDepth, crossCompiler, builder>>

\* Program.getPredictFunction(mode) (tensorlog.py:105-108)
CallGetPredictFunction(mode) ==
  /\ ncalls < MaxCalls
  /\ LET returns(l) ==
         /\ function' = l.function
         /\ nextId' = l.nextId
         /\ last' = [op |-> "getPredictFunction", mode |-> mode, depth |-> 0,
                     input |-> <<>>, err |-> l.err, failedAt |-> l.failedAt,
                     fun |-> l.fun, out |-> NoOut, compiled |-> l.compiled,
                     maxd |-> l.maxd, calls |-> l.calls]
         /\ evalCompiles' =
              IF l.compiled /\ ~l.err
              THEN [evalCompiles EXCEPT ![mode] = @ + 1] ELSE evalCompiles
     IN returns(lookup(function, nextId, mode))
  /\ ncalls' = ncalls + 1
  /\ UNCHANGED workers
  /\ UNCHANGED <<rules, params, constructed, xc, maxDepth, crossCompiler, builder>>

\* the body shared by eval and evalGrad (tensorlog.py:122-124, 138-140)
evalBody(op, mode, inputs) ==
  /\ ncalls < MaxCalls
  /\ LET returns(l) ==
         /\ function' = l.function
         /\ nextId' = l.nextId
         /\ last' = [op |-> op, mode |-> mode, depth |-> 0,
                     input |-> inputs, err |-> l.err, failedAt |-> l.failedAt,
                     fun |-> l.fun,
                     out |-> IF l.err THEN NoOut ELSE EvalFun(l.fun, inputs),
                     compiled |-> l.compiled,
                     maxd |-> l.maxd, calls |-> l.calls]
         /\ evalCompiles' =
              IF l.compiled /\ ~l.err
              THEN [evalCompiles EXCEPT ![mode] = @ + 1] ELSE evalCompiles
     IN returns(lookup(function, nextId, mode))
  /\ ncalls' = ncalls + 1
  /\ UNCHANGED workers
  /\ UNCHANGED <<rules, params, constructed, xc, maxDepth, crossCompiler, builder>>

\* Program.eval(mode, inputs) (tensorlog.py:117-124)
CallEval(mode, inputs) == evalBody("eval", mode, inputs)

\* Program.evalGrad(mode, inputs) (tensorlog.py:133-140)
CallEvalGrad(mode, inputs) == evalBody("evalGrad", mode, inputs)

\* Program.evalSymbols(mode, symbols) (tensorlog.py:110-115)
CallEvalSymbols(mode, symbol) == evalBody("evalSymbols", mode, onehot(symbol))

\* Program.evalGradSymbols(mode, symbols) (tensorlog.py:126-131)
CallEvalGradSymbols(mode, symbol) ==
  evalBody("evalGradSymbols", mode, onehot(symbol))

Next ==
  \/ \E mode \in TopModes, depth \in Depths : CallCompile(mode, depth)
  \/ \E mode \in TopModes : CallGetPredictFunction(mode)
  \/ \E mode \in TopModes, inputs \in Inputs : CallEval(mode, inputs)
  \/ \E mode \in TopModes, inputs \in Inputs : CallEvalGrad(mode, inputs)
  \/ \E mode \in TopModes, symbol \in QuerySymbols : CallEvalSymbols(mode, symbol)
  \/ \E mode \in TopModes, symbol \in QuerySymbols : CallEvalGradSymbols(mode, symbol)

Spec == Init /\ [][Next]_vars

\* ------------------------------------------------------------------------
\* Worker threads calling eval and evalGrad on one shared Program
\*
\* A thread can be descheduled between any two statements.  The steps of a
\* worker are the statements of eval/evalGrad and of the compile call they
\* make at depth 0 that read or write self.function[(mode,0)]; the nested
\* compile calls that one rule-compilation makes are taken as one step.
\* ------------------------------------------------------------------------

\* a worker enters eval or evalGrad (tensorlog.py:117, 133)
WCall(w, op, mode, inputs) ==
  /\ workers[w].pc \in {"idle", "done", "raised"}
  /\ ncalls < MaxCalls
  /\ ncalls' = ncalls + 1
  /\ workers' = [workers EXCEPT ![w] =
       [pc |-> "check", op |-> op, mode |-> mode, input |-> inputs,
        fun |-> NoFun, out |-> NoOut, err |-> FALSE]]
  /\ UNCHANGED <<function, nextId, last, evalCompiles>>
  /\ UNCHANGED <<rules, params, constructed, xc, maxDepth, crossCompiler, builder>>

\* tensorlog.py:122, 138:  if (mode,0) not in self.function
WCheck(w) ==
  /\ workers[w].pc = "check"
  /\ workers' = [workers EXCEPT ![w].pc =
       IF cacheMiss(function, workers[w].mode) THEN "build" ELSE "fetch"]
  /\ UNCHANGED <<function, nextId, ncalls, last, evalCompiles>>
  /\ UNCHANGED <<rules, params, constructed, xc, maxDepth, crossCompiler, builder>>

\* tensorlog.py:77-92 inside self.compile(mode): the function of the mode is
\* built and bound to (mode,0), or the call raises
WBuild(w) ==
  /\ workers[w].pc = "build"
  /\ LET built(c) ==
         /\ function' = c.function
         /\ nextId' = c.nextId
         /\ workers' = [workers EXCEPT ![w].pc = IF c.err THEN "raised" ELSE "wrap",
                                       ![w].err = c.err]
     IN built(compileRaw(function, nextId, workers[w].mode, 0))
  /\ UNCHANGED <<ncalls, last, evalCompiles>>
  /\ UNCHANGED <<rules, params, constructed, xc, maxDepth, crossCompiler, builder>>

\* tensorlog.py:93-95 inside self.compile(mode): the entry bound to (mode,0)
\* is read, wrapped and bound again
WWrap(w) ==
  /\ workers[w].pc = "wrap"
  /\ LET n == normalizeTop(function, nextId, workers[w].mode, 0) IN
       /\ function' = n.function
       /\ nextId' = n.nextId
  /\ workers' = [workers EXCEPT ![w].pc = "fetch"]
  /\ UNCHANGED <<ncalls, last, evalCompiles>>
  /\ UNCHANGED <<rules, params, constructed, xc, maxDepth, crossCompiler, builder>>

\* tensorlog.py:123, 139:  fun = self.function[(mode,0)]
WFetch(w) ==
  /\ workers[w].pc = "fetch"
  /\ workers' = [workers EXCEPT ![w].pc = "apply",
                                ![w].fun = dictGet(function, <<workers[w].mode, 0>>)]
  /\ UNCHANGED <<function, nextId, ncalls, last, evalCompiles>>
  /\ UNCHANGED <<rules, params, constructed, xc, maxDepth, crossCompiler, builder>>

\* tensorlog.py:124, 140:  return fun.eval(self.db, inputs)
WApply(w) ==
  /\ workers[w].pc = "apply"
  /\ workers' = [workers EXCEPT ![w].pc = "done",
                                ![w].out = EvalFun(workers[w].fun, workers[w].input)]
  /\ UNCHANGED <<function, nextId, ncalls, last, evalCompiles>>
  /\ UNCHANGED <<rules, params, constructed, xc, maxDepth, crossCompiler, builder>>

NextConc ==
  \/ \E w \in Workers, op \in {"eval", "evalGrad"}, mode \in TopModes,
        inputs \in Inputs : WCall(w, op, mode, inputs)
  \/ \E w \in Workers : WCheck(w)
  \/ \E w \in Workers : WBuild(w)
  \/ \E w \in Workers : WWrap(w)
  \/ \E w \in Workers : WFetch(w)
  \/ \E w \in Workers : WApply(w)

SpecConc == Init /\ [][NextConc]_vars

\* ------------------------------------------------------------------------
\* Auxiliary definitions for the properties
\* ------------------------------------------------------------------------

\* vectors the compiled functions are evaluated on in the properties
TestVectors == {VecOf(f, NumEntities) : f \in [Entities -> 0..1]}

EvalCallOps == {"eval", "evalGrad", "evalSymbols", "evalGradSymbols"}

LookupOps == EvalCallOps \cup {"getPredictFunction"}

\* the function compile built for a cache entry, without the depth-0 wrapper
Unwrapped(fun) == IF fun.kind = "Norm" THEN fun.fun ELSE fun

\* functors with neither rules nor facts
Undefined(functor) == ~inDB(functor) /\ functor \notin DOMAIN RulesByFunctor

RECURSIVE ReachesUndefined(_, _)
\* the rule graph leads from functor to an undefined predicate (in at most
\* fuel rule expansions)
ReachesUndefined(functor, fuel) ==
  \/ Undefined(functor)
  \/ /\ fuel > 0
     /\ functor \in DOMAIN RulesByFunctor
     /\ \E i \in DOMAIN RulesByFunctor[functor] :
          \E n \in DOMAIN RulesByFunctor[functor][i].rhs :
            ReachesUndefined(RulesByFunctor[functor][i].rhs[n], fuel - 1)

RECURSIVE UndefinedWithin(_, _)
\* expanding functor at depth, its rules' goals at depth+1 and so on, an
\* undefined predicate is met at a depth within the maximum
UndefinedWithin(functor, depth) ==
  /\ depth <= MAXDEPTH
  /\ \/ Undefined(functor)
     \/ /\ functor \in DOMAIN RulesByFunctor
        /\ \E i \in DOMAIN RulesByFunctor[functor] :
             \E n \in DOMAIN RulesByFunctor[functor][i].rhs :
               UndefinedWithin(RulesByFunctor[functor][i].rhs[n], depth + 1)

\* ------------------------------------------------------------------------
\* C1
\* ------------------------------------------------------------------------

\* C1: for every mode and every depth greater than the maximum recursion
\* depth, compile(mode, depth) returns (and caches) a Null Function for that
\* mode, whose output is the all-zero vector for every input; the same holds
\* of every entry of the cache at a depth beyond the maximum.
C1_NullBeyondMaxDepth ==
  /\ (last.op = "compile" /\ last.depth > MAXDEPTH) =>
       /\ last.fun.kind = "Null"
       /\ last.fun.mode = last.mode
       /\ <<last.mode, last.depth>> \in DOMAIN function
       /\ function[<<last.mode, last.depth>>] = last.fun
       /\ \A v \in TestVectors : EvalFun(last.fun, v) = Exact(ZeroVec)
  /\ \A key \in DOMAIN function :
       key[2] > MAXDEPTH =>
         /\ function[key].kind = "Null"
         /\ function[key].mode = key[1]
         /\ \A v \in TestVectors : EvalFun(function[key], v) = Exact(ZeroVec)

\* a recursively defined mode was compiled beyond the maximum depth
C1_Witness ==
  /\ last.op = "compile"
  /\ last.depth > MAXDEPTH
  /\ last.mode = ModeIO("p")
  /\ last.fun.kind = "Null"

\* ------------------------------------------------------------------------
\* C2
\* ------------------------------------------------------------------------

\* C2: recursion exhaustion is never an error: compile(mode, depth) with
\* depth greater than the maximum depth never raises, also for a mode that
\* no rule matches, and no call of the program ever raises at a key whose
\* depth is beyond the maximum.
C2_ExhaustionNeverRaises ==
  /\ (last.op = "compile" /\ last.depth > MAXDEPTH) =>
       /\ ~last.err
       /\ last.failedAt = <<>>
       /\ last.fun # NoFun
  /\ last.err => last.failedAt[2] <= MAXDEPTH

\* a mode without rules was compiled beyond the maximum depth and returned
C2_Witness ==
  /\ last.op = "compile"
  /\ last.depth > MAXDEPTH
  /\ Len(findPredDef(last.mode)) = 0
  /\ ~last.err

\* ------------------------------------------------------------------------
\* C3
\* ------------------------------------------------------------------------

\* C3 as stated: a compile at a depth within the maximum fails when no rule
\* matches the mode, and a top-level compile whose rule bodies reach an
\* undefined predicate fails as a whole.
C3_Original ==
  (last.op = "compile" /\ last.depth = 0
     /\ ReachesUndefined(getFunctor(last.mode), Len(Rules))) => last.err

\* C3 amended: a compile at a depth within the maximum fails when no rule
\* matches the mode; a call that compiles fails as a whole, returning no
\* function and no output, exactly when the expansion of its mode meets an
\* undefined predicate at a depth within the maximum, and the error it
\* reports is that of the nested call on the undefined predicate.
C3_FailurePropagates ==
  /\ (last.op = "compile" /\ last.depth <= MAXDEPTH
        /\ Len(findPredDef(last.mode)) = 0) =>
       (last.err /\ last.failedAt = <<last.mode, last.depth>>)
  /\ (last.op # "none" /\ last.compiled) =>
       (last.err <=> UndefinedWithin(getFunctor(last.mode), last.depth))
  /\ last.err =>
       /\ last.compiled
       /\ last.fun = NoFun
       /\ last.out = NoOut
       /\ Undefined(getFunctor(last.failedAt[1]))
       /\ <<last.mode, last.depth>> \notin DOMAIN function

\* a top-level compile failed because of a nested call on an undefined
\* predicate
C3_Witness ==
  /\ last.op = "compile"
  /\ last.depth = 0
  /\ last.err
  /\ last.failedAt[1] # last.mode
  /\ last.failedAt[2] > 0

\* ------------------------------------------------------------------------
\* C4
\* ------------------------------------------------------------------------

\* C4: with normalization enabled, after any sequence of calls the function
\* cached for (mode, d) is a normalized wrapper if and only if d = 0.
C4_NormalizedIffDepth0 ==
  NORMALIZE =>
    \A key \in DOMAIN function : (function[key].kind = "Norm") <=> (key[2] = 0)

\* the cache holds a normalized depth-0 entry and, for the same mode, a
\* raw sum compiled at depth 1
C4_Witness ==
  /\ <<ModeIO("p"), 0>> \in DOMAIN function
  /\ function[<<ModeIO("p"), 0>>].kind = "Norm"
  /\ <<ModeIO("p"), 1>> \in DOMAIN function
  /\ function[<<ModeIO("p"), 1>>].kind = "Sum"

\* ------------------------------------------------------------------------
\* C5
\* ------------------------------------------------------------------------

\* the function is the compilation of the rule: an operator sequence with
\* one operator per body goal, in the order of the body
CompilesRule(fun, rule) ==
  /\ fun.kind = "OpSeq"
  /\ fun.rule = rule
  /\ Len(fun.ops) = Len(rule.rhs)
  /\ \A n \in DOMAIN rule.rhs :
       IF inDB(rule.rhs[n])
       THEN fun.ops[n] = VecMatMulOp(rule.rhs[n])
       ELSE fun.ops[n].op = "DefinedPred"

\* the shape the number of matching rules prescribes for the function of
\* mode, before any normalization wrapper
ShapeForRules(fun, mode) ==
  LET predDef == findPredDef(mode)
      k == Len(predDef)
  IN /\ k >= 1
     /\ k = 1 => CompilesRule(fun, predDef[1])
     /\ k >= 2 =>
          /\ fun.kind = "Sum"
          /\ Len(fun.funs) = k
          /\ \A i \in 1..k : CompilesRule(fun.funs[i], predDef[i])

\* C5: the function compile builds for a mode with k matching rules is,
\* before any depth-0 wrapper, the compiled function of the rule itself when
\* k = 1, and for k >= 2 a SumFunction with exactly k sub-functions, the i-th
\* being the compilation of the i-th rule in the order of the rule store.
C5_ShapeByRuleCount ==
  /\ \A key \in DOMAIN function :
       key[2] <= MAXDEPTH => ShapeForRules(Unwrapped(function[key]), key[1])
  /\ (last.op = "compile" /\ ~last.err /\ last.depth <= MAXDEPTH) =>
       ShapeForRules(Unwrapped(last.fun), last.mode)

\* a single-rule mode and a three-rule mode have been compiled
C5_Witness ==
  /\ last.op = "compile"
  /\ ~last.err
  /\ Len(findPredDef(last.mode)) = 1
  /\ Unwrapped(last.fun).kind = "OpSeq"
  /\ \E key \in DOMAIN function :
       /\ Len(findPredDef(key[1])) = 3
       /\ Unwrapped(function[key]).kind = "Sum"

\* ------------------------------------------------------------------------
\* C6
\* ------------------------------------------------------------------------

\* the function of one rule of mode, compiled on its own at depth
RuleAlone(mode, depth, rule) ==
  BPCompilerGetFunction(EmptyCache, 1, mode, depth, rule).fun

RECURSIVE RulesAlone(_, _, _)
\* the functions of the first n rules of mode, each compiled on its own
RulesAlone(mode, depth, n) ==
  IF n = 0 THEN <<>>
  ELSE Append(RulesAlone(mode, depth, n - 1),
              RuleAlone(mode, depth, findPredDef(mode)[n]))

RECURSIVE SumOfContributions(_, _, _)
\* the elementwise sum of the outputs on v of the first n functions of alone
SumOfContributions(alone, n, v) ==
  IF n = 0 THEN ZeroVec
  ELSE VecAdd(SumOfContributions(alone, n - 1, v), EvalVec(alone[n], v))

\* C6 as stated: evaluate(M, x) equals the elementwise sum of each rule's
\* individually compiled and evaluated contribution.
C6_Original ==
  (last.op \in EvalCallOps /\ ~last.err /\ Len(findPredDef(last.mode)) >= 2) =>
    last.out = Exact(SumOfContributions(
                 RulesAlone(last.mode, 0, Len(findPredDef(last.mode))),
                 Len(findPredDef(last.mode)), last.input))

\* C6 amended: for a mode M with several rules, the unnormalized function
\* that compile builds for M and that a call returns or evaluates (the
\* function inside the depth-0 wrapper) yields, for every input x, the
\* elementwise sum of each rule's individually compiled and evaluated
\* contribution, and evaluate(M, x) is the softmax normalization of that sum.
C6_AdditiveBeforeNormalization ==
  /\ (~last.err /\ last.fun # NoFun /\ last.depth <= MAXDEPTH
        /\ Len(findPredDef(last.mode)) >= 2) =>
       LET alone == RulesAlone(last.mode, last.depth,
                               Len(findPredDef(last.mode)))
           built == Unwrapped(last.fun)
       IN \A v \in TestVectors :
            EvalVec(built, v) = SumOfContributions(alone, Len(alone), v)
  /\ (last.op \in EvalCallOps /\ ~last.err
        /\ Len(findPredDef(last.mode)) >= 2) =>
       LET alone == RulesAlone(last.mode, 0, Len(findPredDef(last.mode)))
           sum == Exact(SumOfContributions(alone, Len(alone), last.input))
       IN last.out = IF NORMALIZE THEN Softmax(sum) ELSE sum

\* a mode with several rules was evaluated, more than one rule contributed
\* and the output is not the plain sum
C6_Witness ==
  /\ last.op \in EvalCallOps
  /\ ~last.err
  /\ Len(findPredDef(last.mode)) >= 2
  /\ last.out.level = 1
  /\ \E i, j \in 1..Len(findPredDef(last.mode)) :
       /\ i # j
       /\ EvalVec(RuleAlone(last.mode, 0, findPredDef(last.mode)[i]),
                  last.input) # ZeroVec
       /\ EvalVec(RuleAlone(last.mode, 0, findPredDef(last.mode)[j]),
                  last.input) # ZeroVec

\* ------------------------------------------------------------------------
\* C7
\* ------------------------------------------------------------------------

\* C7 as stated: no chain of nested compile calls started at a depth d >= 0
\* reaches a depth greater than the maximum depth plus one.
C7_Original ==
  (last.op # "none" /\ last.compiled) => last.maxd <= MAXDEPTH + 1

\* C7 amended: a compile call started at depth d returns after finitely
\* many nested compile calls, none of which is at a depth greater than the
\* larger of d and the maximum depth plus one.
C7_DepthBounded ==
  (last.op # "none" /\ last.compiled) =>
    /\ last.calls >= 1
    /\ last.maxd >= last.depth
    /\ last.maxd <= Max(last.depth, MAXDEPTH + 1)

\* a top-level compile of a recursive mode ran down to the maximum depth
\* plus one
C7_Witness ==
  /\ last.op = "compile"
  /\ last.depth = 0
  /\ last.mode \in {ModeIO("p"), ModeIO("a")}
  /\ last.maxd = MAXDEPTH + 1
  /\ last.calls = MAXDEPTH + 2

\* ------------------------------------------------------------------------
\* C8
\* ------------------------------------------------------------------------

\* C8: once the cache holds a Function for a key, in every later state the
\* key is still present and bound to that same Function object.
C8_Original ==
  [][\A key \in DOMAIN function :
       /\ key \in DOMAIN function'
       /\ function'[key].id = function[key].id]_vars

\* ------------------------------------------------------------------------
\* C9
\* ------------------------------------------------------------------------

SequentialResult(mode, inputs) ==
  EvalFun(compile(EmptyCache, 1, mode, 0).res, inputs)

\* C10: when workers call eval/evalGrad concurrently on one program, every
\* worker evaluates a fully built depth-0 function (a normalized wrapper
\* around an unnormalized function when normalization is enabled) and
\* obtains the result of a sequential run.
C10_Original ==
  \A w \in Workers :
    workers[w].pc = "done" =>
      /\ NORMALIZE =>
           /\ workers[w].fun.kind = "Norm"
           /\ workers[w].fun.fun.kind # "Norm"
      /\ workers[w].out = SequentialResult(workers[w].mode, workers[w].input)


\* ------------------------------------------------------------------------
\* C11
\* ------------------------------------------------------------------------

RECURSIVE Strip(_)
RECURSIVE StripAll(_, _)
RECURSIVE StripOps(_, _)

\* the first n functions of ruleFuns without the identities of the objects
StripAll(ruleFuns, n) ==
  IF n = 0 THEN <<>> ELSE Append(StripAll(ruleFuns, n - 1), Strip(ruleFuns[n]))

\* the first n operators of ops without the identities of the objects
StripOps(ops, n) ==
  IF n = 0 THEN <<>>
  ELSE Append(StripOps(ops, n - 1),
              IF ops[n].op = "DefinedPred"
              THEN [op |-> "DefinedPred", fun |-> Strip(ops[n].fun)]
              ELSE ops[n])

\* a function without the identities of its objects: its variant structure,
\* its rules and operators in order
Strip(fun) ==
  CASE fun.kind = "None" -> fun
    [] fun.kind = "Null" -> [kind |-> "Null", mode |-> fun.mode]
    [] fun.kind = "OpSeq" ->
         [kind |-> "OpSeq", rule |-> fun.rule,
          ops |-> StripOps(fun.ops, Len(fun.ops))]
    [] fun.kind = "Sum" ->
         [kind |-> "Sum", funs |-> StripAll(fun.funs, Len(fun.funs))]
    [] fun.kind = "Norm" -> [kind |-> "Norm", fun |-> Strip(fun.fun)]

\* the outcome of compile(mode, depth) as the first call on a new program
FreshCompile(mode, depth) == compile(EmptyCache, 1, mode, depth)

\* C11: whatever calls came before, a compile call and an eval call have the
\* outcome they have as the first call on a new program with the same rules
\* and database: compile(mode, depth) raises in both or returns functions of
\* the same variant structure, rule order and output for every input, and
\* eval returns the same output.  So two runs issuing the same calls agree,
\* and compiling a key twice yields extensionally equal functions.
C11_Deterministic ==
  /\ last.op = "compile" =>
       LET fresh == FreshCompile(last.mode, last.depth) IN
         /\ last.err = fresh.err
         /\ Strip(last.fun) = Strip(fresh.res)
         /\ ~last.err =>
              \A v \in Inputs : EvalFun(last.fun, v) = EvalFun(fresh.res, v)
  /\ last.op \in LookupOps =>
       LET fresh == FreshCompile(last.mode, 0) IN
         /\ last.err = fresh.err
         /\ Strip(last.fun) = Strip(fresh.res)
         /\ (last.op \in EvalCallOps /\ ~last.err) =>
              last.out = EvalFun(fresh.res, last.input)

\* a mode with several rules was compiled for the second time: the function
\* returned is another object than the one a new program builds
C11_Witness ==
  /\ last.op = "compile"
  /\ ~last.err
  /\ last.depth = 0
  /\ Len(findPredDef(last.mode)) >= 2
  /\ last.fun.id # FreshCompile(last.mode, 0).res.id
  /\ last.calls > 1

\* ------------------------------------------------------------------------
\* Cross-compilation of a SoftmaxFunction (theanoxcomp)
\* ------------------------------------------------------------------------

\* exp(x) is 0.0 in double precision exactly when x is below about -745
ExpUnderflow == 745

\* Entries of the inner function's output vector.  An entry is exactly
\* zero, or nonzero and within the tolerance of isclose (1e-8), or an
\* ordinary number v.
ZeroEntry == [cls |-> "zero", v |-> 0]

TinyEntry == [cls |-> "tiny", v |-> 0]

NumEntry(v) == [cls |-> "num", v |-> v]

InnerEntries == {ZeroEntry, TinyEntry, NumEntry(1), NumEntry(2), NumEntry(ExpUnderflow + 2)}

InnerVectors == {VecOf(f, NumEntities) : f \in [Entities -> InnerEntries]}

RECURSIVE MaxOver(_, _, _)
\* the largest x[i].v over the positions i in 1..n that are in keep
MaxOver(x, keep, n) ==
  IF n = 0 THEN 0
  ELSE IF n \in keep /\ (\A j \in keep : j < n => x[j].v <= x[n].v)
       THEN x[n].v
       ELSE MaxOver(x, keep, n - 1)

\* TNN.nnet.softmax over the positions in keep: exp(x[i] - max) / sum,
\* positive unless exp underflows
softmaxPositive(x, keep, i) == MaxOver(x, keep, NumEntities) - x[i].v <= ExpUnderflow

\* 1 - TT.isclose(subExpr, zeros_like(subExpr)): true where the entry is kept
notCloseToZero(e) == e.cls = "num"

\* CrossCompiler.fun2Expr, SoftmaxFunction branch:
\*   result = softmax(subExpr) * (1 - isclose(subExpr, 0))
\*   return result / result.sum()
fun2ExprSoftmax(subExpr) ==
  LET masked(i) == softmaxPositive(subExpr, Entities, i) /\ notCloseToZero(subExpr[i])
      sumIsZero == \A i \in Entities : ~masked(i)
  IN VecOf([i \in Entities |->
              IF sumIsZero THEN "nan"
              ELSE IF masked(i) THEN "pos" ELSE "zero"], NumEntities)

\* TheanoCrossCompiler._applyOpToNonzerosOfDense with op = softmax:
\* the stored entries of clean(csr_from_dense(expr)) are the entries that
\* are not exactly zero; softmax is applied to that data only
applyOpToNonzerosOfDense(expr) ==
  LET stored == {i \in Entities : expr[i].cls # "zero"}
  IN VecOf([i \in Entities |->
              IF i \in stored /\ softmaxPositive(expr, stored, i)
              THEN "pos" ELSE "zero"], NumEntities)

\* the cross-compiler builds the expression of a SoftmaxFunction whose inner
\* function has the value subExpr
CallFun2Expr ==
  /\ \E subExpr \in InnerVectors :
       xc' = [subExpr |-> subExpr, result |-> fun2ExprSoftmax(subExpr),
              via |-> "fun2Expr"]
  /\ UNCHANGED <<function, nextId, ncalls, last, evalCompiles, workers>>
  /\ UNCHANGED <<rules, params, constructed, maxDepth, crossCompiler, builder>>

CallSoftmaxFun2Expr ==
  /\ \E subExpr \in InnerVectors :
       xc' = [subExpr |-> subExpr, result |-> applyOpToNonzerosOfDense(subExpr),
              via |-> "applyOpToNonzerosOfDense"]
  /\ UNCHANGED <<function, nextId, ncalls, last, evalCompiles, workers>>
  /\ UNCHANGED <<rules, params, constructed, maxDepth, crossCompiler, builder>>

NextSoftmax ==
  \/ CallFun2Expr
  \/ CallSoftmaxFun2Expr

SpecSoftmax == Init /\ [][NextSoftmax]_vars

\* C12: normalization preserves the support: an entity whose inner entry is
\* zero has output exactly zero, and an entity whose inner entry is nonzero
\* has a nonzero output.
C12_Original ==
  xc.via # "none" =>
    \A i \in Entities :
      /\ xc.subExpr[i].cls = "zero" => xc.result[i] = "zero"
      /\ xc.subExpr[i].cls # "zero" => xc.result[i] # "zero"

\* C13: when the inner function yields the all-zero vector, the normalized
\* result is the all-zero vector and never NaN.
C13_Original ==
  (xc.via # "none" /\ \A i \in Entities : xc.subExpr[i].cls = "zero") =>
    \A i \in Entities : xc.result[i] = "zero"

\* ------------------------------------------------------------------------
\* Construction and use of a ProPPRProgram (tensorlog.py:173-188)
\* ------------------------------------------------------------------------

\* ProPPRProgram.setWeights
setWeights(dbParams, weights) == (<<"weighted", 1>> :> weights) @@ dbParams

\* before the constructor is called there is no program object
InitProPPR ==
  /\ function = EmptyCache
  /\ nextId = 1
  /\ ncalls = 0
  /\ last = NoCall
  /\ evalCompiles = [m \in ProPPRModes |-> 0]
  /\ workers = [w \in Workers |-> IdleWorker]
  /\ rules = <<>>
  /\ params = NoParams
  /\ constructed = [class |-> "none", rules0 |-> <<>>, weights |-> <<>>,
                    originals |-> <<>>]
  /\ xc = NoXC
  /\ maxDepth = MAXDEPTH
  /\ crossCompiler = NewCrossCompiler
  /\ builder = <<>>

\* ProPPRProgram(db, rules0, weights) (tensorlog.py:175-179): the rules are
\* rewritten in place, then the weights are stored; a failed assertion
\* leaves the constructor by an exception and no object is returned
ConstructProPPR ==
  /\ constructed.class = "none"
  /\ \E rules0 \in RuleCollections, weights \in WeightTables :
       LET built(m) ==
             /\ constructed' =
                  [class |-> IF m.err THEN "failed" ELSE "ProPPRProgram",
                   rules0 |-> rules0, weights |-> weights,
                   originals |-> m.originals]
             /\ rules' = IF m.err THEN <<>> ELSE indexRules(m.rules)
             /\ params' = IF m.err THEN params ELSE setWeights(params, weights)
       IN built(mapRules(rules0, Len(rules0)))
  /\ UNCHANGED <<function, nextId, ncalls, last, evalCompiles, workers, xc,
               maxDepth, crossCompiler, builder>>

\* calls are made on the object the constructor returned
ProPPRCompile(mode, depth) ==
  /\ constructed.class = "ProPPRProgram"
  /\ CallCompile(mode, depth)

ProPPREval(mode, inputs) ==
  /\ constructed.class = "ProPPRProgram"
  /\ CallEval(mode, inputs)

ProPPREvalSymbols(mode, symbol) ==
  /\ constructed.class = "ProPPRProgram"
  /\ CallEvalSymbols(mode, symbol)

NextProPPR ==
  \/ ConstructProPPR
  \/ \E mode \in ProPPRModes, depth \in {0, 1} : ProPPRCompile(mode, depth)
  \/ \E mode \in ProPPRModes, inputs \in Inputs : ProPPREval(mode, inputs)
  \/ \E mode \in ProPPRModes, symbol \in QuerySymbols : ProPPREvalSymbols(mode, symbol)

SpecProPPR == InitProPPR /\ [][NextProPPR]_vars

\* the mode aunt(i,o) of the example
AuntMode == ModeIO("aunt")

\* the entity with the given symbol
SymbolId(name) == CHOOSE i \in Entities : EntityName(i) = name

\* the symbols of the example
Ann == SymbolId("ann")

Cara == SymbolId("cara")

\* C14: with parent(ann,bob), sister(bob,cara) and the single rule
\* aunt(X,Y) :- parent(X,Z), sister(Z,Y) with the constant feature f of
\* weight w, evaluating aunt/io on ann gives a vector whose only nonzero
\* entry is at cara: w before normalization, 1 after it.
C14_AuntExample ==
  (/\ constructed.class = "ProPPRProgram"
   /\ Len(findPredDef(AuntMode)) = 1
   /\ last.op \in {"eval", "evalSymbols"}
   /\ last.mode = AuntMode
   /\ last.input = onehot(Ann))
  => /\ ~last.err
     /\ EvalVec(Unwrapped(last.fun), last.input)
          = Scale(onehot(Cara), constructed.weights["f"])
     /\ last.out = (IF NORMALIZE THEN Exact(onehot(Cara))
                    ELSE Exact(Scale(onehot(Cara), constructed.weights["f"])))

C14_Witness ==
  /\ constructed.class = "ProPPRProgram"
  /\ Len(findPredDef(AuntMode)) = 1
  /\ last.op = "evalSymbols"
  /\ last.mode = AuntMode
  /\ last.input = onehot(Ann)
  /\ constructed.weights["f"] = 2
  /\ last.out = Exact(onehot(Cara))

\* the three kinds of malformed feature syntax
Malformed(rule0) ==
  \/ rule0.findall = <<>> /\ Len(rule0.features) # 1
  \/ rule0.findall # <<>> /\ Len(rule0.features) > 1
  \/ /\ rule0.findall # <<>>
     /\ Len(rule0.features) = 1
     /\ ~(rule0.features[1].functor = "all" /\ Len(rule0.features[1].args) = 1)

\* C15: a rule set with malformed feature syntax makes the construction of
\* the ProPPR program fail: there is no program object, nothing was
\* compiled and no call was made; a rule set without malformed rules is
\* constructed.
C15_MalformedFailsConstruction ==
  constructed.class \in {"failed", "ProPPRProgram"} =>
    /\ (\E i \in DOMAIN constructed.rules0 : Malformed(constructed.rules0[i]))
         <=> constructed.class = "failed"
    /\ constructed.class = "failed" =>
         /\ rules = <<>>
         /\ function = EmptyCache
         /\ nextId = 1
         /\ ncalls = 0
         /\ last = NoCall
         /\ ~ENABLED NextProPPR

C15_Witness ==
  /\ constructed.class = "failed"
  /\ Len(constructed.rules0) = 2
  /\ ~Malformed(constructed.rules0[1])
  /\ Malformed(constructed.rules0[2])
  /\ constructed.rules0[2].findall # <<>>
  /\ Len(constructed.rules0[2].features) = 1

\* C21: the rewrite pass produces new rules and leaves the head, body goal
\* list, features and findall goals of every original rule unchanged.
C21_Original ==
  constructed.class \in {"ProPPRProgram", "failed"} =>
    /\ Len(constructed.originals) = Len(constructed.rules0)
    /\ \A i \in DOMAIN constructed.rules0 :
         /\ constructed.originals[i].lhs = constructed.rules0[i].lhs
         /\ constructed.originals[i].rhs = constructed.rules0[i].rhs
         /\ constructed.originals[i].features = constructed.rules0[i].features
         /\ constructed.originals[i].findall = constructed.rules0[i].findall

\* the rule of the collection that was rewritten into the k-th rule of functor
RawRule(functor, k) ==
  SelectSeq(constructed.rules0, LAMBDA rule0 : rule0.lhs = functor)[k]

\* C20: the rewrite turns a rule with one constant feature f into the same
\* head with the original body followed by assign(F,f) and weighted(F), F
\* the upper-cased f; a rule with the generator all(V) into the original
\* body followed by the findall goals in order and weighted(V); the last
\* body goal of every rewritten rule is a weighted/1 goal.
C20_FeaturesMovedToRHS ==
  constructed.class = "ProPPRProgram" =>
    /\ DOMAIN rules = {constructed.rules0[i].lhs : i \in DOMAIN constructed.rules0}
    /\ \A functor \in DOMAIN rules :
         /\ Len(rules[functor])
              = Len(SelectSeq(constructed.rules0, LAMBDA rule0 : rule0.lhs = functor))
         /\ \A k \in DOMAIN rules[functor] :
              LET rule == rules[functor][k]
                  rule0 == RawRule(functor, k)
                  body == Len(rule0.rhs)
                  last1 == GoalTable[rule.rhs[Len(rule.rhs)]]
              IN /\ rule.lhs = rule0.lhs
                 /\ SubSeq(rule.rhs, 1, body) = rule0.rhs
                 /\ last1.functor = "weighted" /\ Len(last1.args) = 1
                 /\ IF rule0.findall = <<>>
                    THEN /\ Len(rule.rhs) = body + 2
                         /\ rule.rhs[body + 1]
                              = GoalStr("assign", <<Upper[rule0.features[1].functor],
                                                     rule0.features[1].functor>>)
                         /\ rule.rhs[body + 2]
                              = GoalStr("weighted", <<Upper[rule0.features[1].functor]>>)
                    ELSE /\ Len(rule.rhs) = body + Len(rule0.findall) + 1
                         /\ \A j \in DOMAIN rule0.findall :
                              rule.rhs[body + j] = rule0.findall[j]
                         /\ last1.args = rule0.features[1].args

C20_Witness ==
  /\ constructed.class = "ProPPRProgram"
  /\ Len(constructed.rules0) = 2
  /\ constructed.rules0[1].findall = <<>>
  /\ Len(constructed.rules0[2].findall) = 2
  /\ constructed.rules0[1].lhs = constructed.rules0[2].lhs

\* ------------------------------------------------------------------------
\* Callers holding several mode objects (tensorlog.py:21-42)
\* ------------------------------------------------------------------------

\* number of mode objects a caller creates for one goal
NumModeObjects == 2

\* ModeDeclaration(goal): every call of the constructor gives a new object,
\* told apart by oid
ModeObjects ==
  {[functor |-> f, args |-> a, oid |-> o] :
     f \in {"p"}, a \in {<<"i", "o">>, <<"o", "i">>}, o \in 1..NumModeObjects}

InitModes ==
  /\ function = EmptyCache
  /\ nextId = 1
  /\ ncalls = 0
  /\ last = NoCall
  /\ evalCompiles = [m \in ModeObjects |-> 0]
  /\ workers = [w \in Workers |-> IdleWorker]
  /\ rules = RulesByFunctor
  /\ params = NoParams
  /\ constructed = [class |-> "Program", rules0 |-> Rules, weights |-> <<>>,
                    originals |-> Rules]
  /\ xc = NoXC
  /\ maxDepth = MAXDEPTH
  /\ crossCompiler = NewCrossCompiler
  /\ builder = <<>>

NextModes ==
  \/ \E mode \in ModeObjects, depth \in {0, 1} : CallCompile(mode, depth)
  \/ \E mode \in ModeObjects : CallGetPredictFunction(mode)
  \/ \E mode \in ModeObjects, inputs \in Inputs : CallEval(mode, inputs)

SpecModes == InitModes /\ [][NextModes]_vars

\* the entries of the cache at depth 0 whose mode has the string form of mode
EntriesFor(mode) ==
  {k \in DOMAIN function : k[2] = 0 /\ modeKey(k[1]) = modeKey(mode)}

\* C16: two modes are equal iff their string forms match, and equal modes
\* have equal hashes; so the cache has one entry per string form and depth,
\* eval and getPredictFunction under a mode object find the function that
\* was compiled under another object with the same string form, and a mode
\* with other argument tags is compiled into an entry of its own that
\* leaves the entries of the other tags as they were.
C16_ModesEqualByKey ==
  /\ [](\A m1 \in ModeObjects, m2 \in ModeObjects :
          /\ modeEq(m1, m2) <=> (modeKey(m1) = modeKey(m2))
          /\ modeEq(m1, m2) => modeHash(m1) = modeHash(m2))
  /\ [](\A k1 \in DOMAIN function, k2 \in DOMAIN function :
          (modeKey(k1[1]) = modeKey(k2[1]) /\ k1[2] = k2[2]) => k1 = k2)
  /\ [][(ncalls' = ncalls + 1 /\ last'.op \in {"eval", "getPredictFunction"}) =>
          IF EntriesFor(last'.mode) # {}
          THEN /\ ~last'.compiled
               /\ ~last'.err
               /\ \A k \in EntriesFor(last'.mode) : last'.fun = function[k]
               /\ function' = function
          ELSE /\ last'.compiled
               /\ \A k \in DOMAIN function :
                    k[1].args # last'.mode.args =>
                      k \in DOMAIN function' /\ function'[k] = function[k]
               /\ ~last'.err =>
                    \E k \in DOMAIN function' \ DOMAIN function :
                      k[2] = 0 /\ k[1] = last'.mode /\ function'[k] = last'.fun]_vars

C16_Witness ==
  /\ last.op = "eval"
  /\ ~last.err
  /\ ~last.compiled
  /\ \E k \in DOMAIN function :
       /\ k[2] = 0
       /\ k[1] # last.mode
       /\ modeKey(k[1]) = modeKey(last.mode)
       /\ function[k] = last.fun
       /\ modeHash(k[1]) = modeHash(ModeOI(k[1].functor))

\* ------------------------------------------------------------------------
\* The cache after failed and after repeated compilations
\* ------------------------------------------------------------------------

\* C24: a compile call that fails leaves the cache as it was before the
\* call: no entry is added for the failing key nor for a sub-mode compiled
\* during the failed attempt.
C24_Original ==
  [][(ncalls' = ncalls + 1 /\ last'.op = "compile" /\ last'.err) =>
       function' = function]_vars

\* C25: with normalization on, the function cached for (mode, 0) is a
\* normalized wrapper around a function that is not a normalized wrapper.
C25_NormalizedOnce ==
  NORMALIZE =>
    /\ \A key \in DOMAIN function :
         key[2] = 0 =>
           /\ function[key].kind = "Norm"
           /\ function[key].fun.kind # "Norm"
    /\ (last.op \in {"compile", "eval", "evalGrad"} /\ last.depth = 0 /\ ~last.err) =>
         /\ last.fun.kind = "Norm"
         /\ last.fun.fun.kind # "Norm"
         /\ function[<<last.mode, 0>>] = last.fun

\* the second of two compile(mode, 0) calls for one mode has returned
C25_Witness ==
  /\ NORMALIZE
  /\ ncalls = 2
  /\ last.op = "compile"
  /\ last.depth = 0
  /\ ~last.err
  /\ nextId = 2 * FreshCompile(last.mode, 0).nextId - 1
  /\ last.fun.kind = "Norm"
  /\ last.fun.fun.kind = "Sum"

\* ------------------------------------------------------------------------
\* Evaluations under changing depth settings (datasets/grid/expt.py:158-170)
\* ------------------------------------------------------------------------

\* the depths the experiment sets
DepthSettings == 0..(MAXDEPTH + 1)

\* the modes the experiment evaluates
DepthModes == {ModeIO("p"), ModeIO("c0")}

\* ti.prog.maxDepth = d
SetMaxDepth(d) ==
  /\ d # maxDepth
  /\ maxDepth' = d
  /\ UNCHANGED <<function, nextId, ncalls, last, evalCompiles, workers>>
  /\ UNCHANGED <<rules, params, constructed, xc, crossCompiler, builder>>

NextDepth ==
  \/ \E d \in DepthSettings : SetMaxDepth(d)
  \/ \E mode \in DepthModes, inputs \in Inputs : CallEval(mode, inputs)
  \/ \E mode \in DepthModes, symbol \in QuerySymbols : CallEvalSymbols(mode, symbol)

SpecDepth == Init /\ [][NextDepth]_vars

\* C26: changing the maximum depth after a mode was evaluated has no effect
\* on later evaluations of the mode: the change leaves the cache alone, the
\* entry of (mode, 0) is never rebuilt, and every later eval or evalSymbols
\* of the mode runs that entry, the function compiled first.
C26_DepthChangeNoEffect ==
  /\ [](\A m \in DepthModes : evalCompiles[m] <= 1)
  /\ [][maxDepth' # maxDepth => function' = function]_vars
  /\ [][\A key \in DOMAIN function :
          key[2] = 0 => key \in DOMAIN function' /\ function'[key] = function[key]]_vars
  /\ [][(ncalls' = ncalls + 1 /\ <<last'.mode, 0>> \in DOMAIN function) =>
          /\ ~last'.err
          /\ ~last'.compiled
          /\ function' = function
          /\ last'.fun = function[<<last'.mode, 0>>]
          /\ last'.out = EvalFun(function[<<last'.mode, 0>>], last'.input)]_vars

\* an evaluation has run a cached function that differs from the one the
\* current depth setting would give
C26_Witness ==
  /\ last.op \in {"eval", "evalSymbols"}
  /\ last.mode = ModeIO("p")
  /\ ~last.err
  /\ ~last.compiled
  /\ maxDepth # MAXDEPTH
  /\ Strip(last.fun) # Strip(FreshCompile(last.mode, 0).res)
  /\ last.out # EvalFun(FreshCompile(last.mode, 0).res, last.input)


\* ------------------------------------------------------------------------
\* The theano cross-compiler (theanoxcomp.py)
\* ------------------------------------------------------------------------

\* the mode objects that operators carry as their matMode: NumModeObjects
\* objects for q(i,o), one for q(o,i) and one for r(i,o)
MatModes ==
  {[functor |-> "q", args |-> <<"i", "o">>, oid |-> o] :
     o \in 1..NumModeObjects}
  \cup {[functor |-> "q", args |-> <<"o", "i">>, oid |-> 1],
        [functor |-> "r", args |-> <<"i", "o">>, oid |-> 1]}

\* the relation matrix that the database gives for a mode
matrix(matMode, transpose) ==
  [functor |-> matMode.functor, arity |-> Len(matMode.args),
   transposed |-> (forward(matMode) = transpose)]

\* theano expressions: a named matrix variable (a new object at every
\* call, id tells the objects apart), expr.T, x.dot(m), and the masked and
\* renormalized softmax of fun2Expr
dmatrix(name, id) == [e |-> "dmatrix", name |-> name, id |-> id]

Transposed(mExpr) == [e |-> "T", of |-> mExpr]

dot(x, mExpr) == [e |-> "dot", l |-> x, r |-> mExpr]

maskedSoftmax(subExpr) == [e |-> "maskedSoftmax", of |-> subExpr]

\* funs.OpSeqFunction, funs.SoftmaxFunction and ops.VecMatMulOp as the
\* cross-compiler reads them
OpSeq(opInputs, ops) == [kind |-> "OpSeq", opInputs |-> opInputs, ops |-> ops]

SoftmaxOf(fun) == [kind |-> "Softmax", fun |-> fun]

MatMulOp(dst, src, matMode, transpose) ==
  [op |-> "VecMatMul", dst |-> dst, src |-> src, matMode |-> matMode,
   transpose |-> transpose]

\* TheanoEnv.internalName
internalName(namespaceId, key) == "n" \o ToString(namespaceId) \o "__" \o key

\* TheanoEnv.__setitem__
setitem(env, name, val) ==
  [x \in DOMAIN env \cup {name} |-> IF x = name THEN val ELSE env[x]]

RECURSIVE joinTags(_, _)
\* "".join([matMode.arg(i) for i in range(n)])
joinTags(matMode, n) ==
  IF n = 0 THEN "" ELSE joinTags(matMode, n - 1) \o matMode.args[n]

\* the keys of the dict d that equal matMode: same hash, then __eq__
matFind(d, matMode) ==
  {k \in DOMAIN d : modeHash(k) = modeHash(matMode) /\ modeEq(k, matMode)}

\* d[key] = val: an equal key that is present keeps its key object
dictSet(d, key, val) ==
  LET found == matFind(d, key)
  IN IF found = {} THEN [x \in DOMAIN d \cup {key} |->
                           IF x = key THEN val ELSE d[x]]
     ELSE [x \in DOMAIN d |-> IF x \in found THEN val ELSE d[x]]

\* matrixExpr without the membership test: a new variable at every request
matrixExprAlways(cc, matMode) ==
  LET u == "M__" \o matMode.functor \o "_"
             \o joinTags(matMode, Len(matMode.args))
      v == dmatrix(u, cc.numVars + 1)
  IN [cc |-> [cc EXCEPT !.dbMatrixExpr = dictSet(@, matMode, v),
                        !.dbMatrixExprBinding =
                           dictSet(@, matMode, matrix(matMode, FALSE)),
                        !.numVars = @ + 1],
      expr |-> v]

\* CrossCompiler.matrixExpr (theanoxcomp.py:88-96)
matrixExpr(cc, matMode) ==
  LET u == "M__" \o matMode.functor \o "_"
             \o joinTags(matMode, Len(matMode.args))
      v == dmatrix(u, cc.numVars + 1)
      found == matFind(cc.dbMatrixExpr, matMode)
  IN IF found = {}
     THEN [cc |-> [cc EXCEPT !.dbMatrixExpr = dictSet(@, matMode, v),
                             !.dbMatrixExprBinding =
                                dictSet(@, matMode, matrix(matMode, FALSE)),
                             !.numVars = @ + 1],
           expr |-> v]
     ELSE [cc |-> cc, expr |-> cc.dbMatrixExpr[CHOOSE k \in found : TRUE]]

\* CrossCompiler.op2Expr (theanoxcomp.py:137-148): the matrix expression is
\* asked for first, then thEnv[op.src] is read, which raises when the name
\* is not bound
op2Expr(cc, thEnv, namespaceId, op) ==
  IF op.op = "VecMatMul"
  THEN LET k(m) ==
             IF internalName(namespaceId, op.src) \in DOMAIN thEnv
             THEN [cc |-> m.cc, err |-> FALSE,
                   expr |-> dot(thEnv[internalName(namespaceId, op.src)],
                                IF op.transpose THEN Transposed(m.expr)
                                ELSE m.expr)]
             ELSE [cc |-> m.cc, err |-> TRUE, expr |-> [e |-> "None"]]
       IN k(matrixExpr(cc, op.matMode))
  ELSE [cc |-> cc, err |-> TRUE, expr |-> [e |-> "None"]]

RECURSIVE bindInputs(_, _, _, _, _)
\* theanoxcomp.py:123-125: a new matrix variable for each of the first n
\* declared inputs, bound in thEnv and appended to seqInputs
bindInputs(cc, thEnv, namespaceId, opInputs, n) ==
  IF n = 0 THEN [cc |-> cc, thEnv |-> thEnv, seqInputs |-> <<>>]
  ELSE LET k(done) ==
             LET name == internalName(namespaceId, opInputs[n])
                 v == dmatrix(name, done.cc.numVars + 1)
             IN [cc |-> [done.cc EXCEPT !.numVars = @ + 1],
                 thEnv |-> setitem(done.thEnv, name, v),
                 seqInputs |-> Append(done.seqInputs, v)]
       IN k(bindInputs(cc, thEnv, namespaceId, opInputs, n - 1))

RECURSIVE runOps(_, _, _, _, _)
\* theanoxcomp.py:127-128: for op in fun.ops: thEnv[op.dst] = op2Expr(..),
\* for the first n operators; an exception ends the loop
runOps(cc, thEnv, namespaceId, ops, n) ==
  IF n = 0 THEN [cc |-> cc, thEnv |-> thEnv, err |-> FALSE]
  ELSE LET k(done) ==
             IF done.err THEN done
             ELSE LET b(r) ==
                        IF r.err
                        THEN [cc |-> r.cc, thEnv |-> done.thEnv, err |-> TRUE]
                        ELSE [cc |-> r.cc,
                              thEnv |-> setitem(done.thEnv,
                                          internalName(namespaceId, ops[n].dst),
                                          r.expr),
                              err |-> FALSE]
                  IN b(op2Expr(done.cc, done.thEnv, namespaceId, ops[n]))
       IN k(runOps(cc, thEnv, namespaceId, ops, n - 1))

\* what fun2Expr gives when it raises: the compiler as the exception left it
fun2ExprRaised(cc) ==
  [cc |-> cc, err |-> TRUE, inputs |-> <<>>, expr |-> [e |-> "None"],
   thEnv |-> <<>>]

RECURSIVE fun2ExprFirstOp(_, _, _)
\* fun2Expr returning the expression of the first operator's destination
fun2ExprFirstOp(cc, fun, numInputs) ==
  IF fun.kind = "Softmax"
  THEN LET k(r) == IF r.err THEN r
                   ELSE [r EXCEPT !.expr = maskedSoftmax(r.expr)]
       IN k(fun2ExprFirstOp(cc, fun.fun, numInputs))
  ELSE IF fun.kind = "OpSeq"
  THEN IF Len(fun.opInputs) # numInputs THEN fun2ExprRaised(cc)
       ELSE LET ns == cc.nameSpace
                k(r) ==
                  IF r.err \/ fun.ops = <<>> THEN fun2ExprRaised(r.cc)
                  ELSE [cc |-> r.cc, err |-> FALSE, inputs |-> r.seqInputs,
                        expr |-> r.thEnv[internalName(ns, fun.ops[1].dst)],
                        thEnv |-> r.thEnv]
                run(i) ==
                  LET j(o) == [cc |-> o.cc, err |-> o.err, thEnv |-> o.thEnv,
                               seqInputs |-> i.seqInputs]
                  IN j(runOps(i.cc, i.thEnv, ns, fun.ops, Len(fun.ops)))
            IN k(run(bindInputs([cc EXCEPT !.nameSpace = @ + 1], <<>>, ns,
                                fun.opInputs, Len(fun.opInputs))))
  ELSE fun2ExprRaised(cc)

RECURSIVE fun2Expr(_, _, _)
\* CrossCompiler.fun2Expr (theanoxcomp.py:98-135)
fun2Expr(cc, fun, numInputs) ==
  IF fun.kind = "Softmax"
  THEN LET k(r) == IF r.err THEN r
                   ELSE [r EXCEPT !.expr = maskedSoftmax(r.expr)]
       IN k(fun2Expr(cc, fun.fun, numInputs))
  ELSE IF fun.kind = "OpSeq"
  THEN IF Len(fun.opInputs) # numInputs THEN fun2ExprRaised(cc)
       ELSE LET ns == cc.nameSpace
                k(r) ==
                  IF r.err \/ fun.ops = <<>> THEN fun2ExprRaised(r.cc)
                  ELSE [cc |-> r.cc, err |-> FALSE, inputs |-> r.seqInputs,
                        expr |-> r.thEnv[internalName(ns,
                                           fun.ops[Len(fun.ops)].dst)],
                        thEnv |-> r.thEnv]
                run(i) ==
                  LET j(o) == [cc |-> o.cc, err |-> o.err, thEnv |-> o.thEnv,
                               seqInputs |-> i.seqInputs]
                  IN j(runOps(i.cc, i.thEnv, ns, fun.ops, Len(fun.ops)))
            IN k(run(bindInputs([cc EXCEPT !.nameSpace = @ + 1], <<>>, ns,
                                fun.opInputs, Len(fun.opInputs))))
  ELSE fun2ExprRaised(cc)

\* the orders in which sorted() can go through the keys of a dict whose
\* keys define no ordering of their own
Orderings(keys) ==
  {ks \in [1..Cardinality(keys) -> keys] :
     \A i, j \in DOMAIN ks : ks[i] = ks[j] => i = j}

\* the functions handed to the cross-compiler
XCInputs == <<"x">>

XCTwoInputs == <<"x", "x2">>

XCFunctions ==
  LET one == {OpSeq(XCInputs, <<MatMulOp("y", "x", m, t)>>) :
                m \in MatModes, t \in BOOLEAN}
      two == {OpSeq(XCInputs, <<MatMulOp("y", "x", m, FALSE),
                                MatMulOp("z", "y", m2, TRUE)>>) :
                m \in MatModes, m2 \in {k \in MatModes : k.functor = "q"}}
      m1 == CHOOSE m \in MatModes : m.functor = "q" /\ forward(m)
      m2 == CHOOSE m \in MatModes : m.functor = "r"
      other == {OpSeq(XCInputs, <<MatMulOp("y", "z", m1, FALSE),
                                  MatMulOp("z", "x", m1, FALSE)>>),
                OpSeq(XCInputs, <<MatMulOp("y", "x", m2, FALSE),
                                  MatMulOp("z", "w", m1, FALSE)>>),
                OpSeq(XCInputs, <<MatMulOp("y", "x", m1, FALSE),
                                  MatMulOp("y", "y", m2, TRUE)>>),
                OpSeq(XCInputs, <<>>),
                OpSeq(XCTwoInputs, <<MatMulOp("y", "x2", m1, FALSE)>>),
                OpSeq(XCInputs, <<[op |-> "WeightedVec", dst |-> "y",
                                   src |-> "x"]>>),
                [kind |-> "Null"], [kind |-> "Sum"]}
  IN one \cup two \cup other \cup {SoftmaxOf(f) : f \in other}

\* xc.matrixExpr(matMode)
CallMatrixExpr(matMode) ==
  /\ ncalls < MaxCalls
  /\ LET k(r) ==
           /\ crossCompiler' = r.cc
           /\ last' = [op |-> "matrixExpr", matMode |-> matMode,
                       err |-> FALSE, result |-> r.expr]
     IN k(matrixExpr(crossCompiler, matMode))
  /\ ncalls' = ncalls + 1
  /\ UNCHANGED <<function, nextId, evalCompiles, workers, rules, params,
                 constructed, xc, maxDepth, builder>>

\* CrossCompiler.compile (theanoxcomp.py:78-86)
CallXCompile(fun, numInputs) ==
  /\ ncalls < MaxCalls
  /\ LET k(r) ==
           IF r.err
           THEN /\ crossCompiler' = r.cc
                /\ last' = [op |-> "xcompile", fun |-> fun,
                            numInputs |-> numInputs, err |-> TRUE,
                            namespaceId |-> crossCompiler.nameSpace,
                            thEnv |-> r.thEnv]
           ELSE \E keys \in Orderings(DOMAIN r.cc.dbMatrixExpr) :
                  LET dbArgs == [i \in DOMAIN keys |->
                                   r.cc.dbMatrixExpr[keys[i]]]
                      dbVals == [i \in DOMAIN keys |->
                                   r.cc.dbMatrixExprBinding[keys[i]]]
                  IN /\ crossCompiler' =
                          [r.cc EXCEPT !.exprArgs = r.inputs,
                                       !.expr = r.expr,
                                       !.dbKeys = keys,
                                       !.dbArgs = dbArgs,
                                       !.dbVals = dbVals,
                                       !.args = r.inputs \o dbArgs,
                                       !.thFun = "function"]
                     /\ last' = [op |-> "xcompile", fun |-> fun,
                                 numInputs |-> numInputs, err |-> FALSE,
                                 namespaceId |-> crossCompiler.nameSpace,
                                 thEnv |-> r.thEnv]
     IN k(fun2Expr(crossCompiler, fun, numInputs))
  /\ ncalls' = ncalls + 1
  /\ UNCHANGED <<function, nextId, evalCompiles, workers, rules, params,
                 constructed, xc, maxDepth, builder>>

NextXC ==
  \/ \E matMode \in MatModes : CallMatrixExpr(matMode)
  \/ \E fun \in XCFunctions, numInputs \in {Len(XCInputs), Len(XCTwoInputs)} :
       CallXCompile(fun, numInputs)

SpecXC == Init /\ [][NextXC]_vars


RECURSIVE MatrixVars(_)
\* the variable objects that occur in a theano expression
MatrixVars(expr) ==
  IF expr.e = "dmatrix" THEN {expr}
  ELSE IF expr.e = "dot" THEN MatrixVars(expr.l) \cup MatrixVars(expr.r)
  ELSE IF expr.e \in {"T", "maskedSoftmax"} THEN MatrixVars(expr.of)
  ELSE {}

\* the two maps have the same keys, one key and one variable per matrix
\* mode, and a request returns the variable of its mode
XCMapsAgree ==
  LET cc == crossCompiler
      keys == DOMAIN cc.dbMatrixExpr
  IN /\ keys = DOMAIN cc.dbMatrixExprBinding
     /\ \A k1, k2 \in keys :
          (modeKey(k1) = modeKey(k2) \/ cc.dbMatrixExpr[k1] = cc.dbMatrixExpr[k2])
            => k1 = k2
     /\ last.op = "matrixExpr" =>
          \E k \in keys : /\ modeKey(k) = modeKey(last.matMode)
                          /\ last.result = cc.dbMatrixExpr[k]
     /\ cc.thFun # "None" => Len(cc.dbArgs) = Len(cc.dbVals)

\* after a compile that returned: one entry per key in dbArgs and dbVals,
\* in the order the keys were gone through, each variable next to the
\* matrix of its own mode, and the expression built uses these variables
XCArgsPaired ==
  LET cc == crossCompiler
      keys == DOMAIN cc.dbMatrixExpr
  IN (last.op = "xcompile" /\ ~last.err) =>
       /\ Len(cc.dbArgs) = Cardinality(keys)
       /\ Len(cc.dbKeys) = Cardinality(keys)
       /\ \A k \in keys : \E i \in DOMAIN cc.dbKeys : cc.dbKeys[i] = k
       /\ \A i \in DOMAIN cc.dbArgs :
            /\ cc.dbKeys[i] \in keys
            /\ cc.dbArgs[i] = cc.dbMatrixExpr[cc.dbKeys[i]]
            /\ cc.dbVals[i] = cc.dbMatrixExprBinding[cc.dbKeys[i]]
            /\ cc.dbVals[i] = matrix(cc.dbKeys[i], FALSE)
       /\ MatrixVars(cc.expr) \subseteq
            {cc.dbArgs[i] : i \in DOMAIN cc.dbArgs}
              \cup {cc.exprArgs[i] : i \in DOMAIN cc.exprArgs}

\* no call removes a key or gives a key another variable or matrix
XCMapsGrow ==
  \A k \in DOMAIN crossCompiler.dbMatrixExpr :
    /\ k \in DOMAIN crossCompiler'.dbMatrixExpr
    /\ crossCompiler'.dbMatrixExpr[k] = crossCompiler.dbMatrixExpr[k]
    /\ crossCompiler'.dbMatrixExprBinding[k] = crossCompiler.dbMatrixExprBinding[k]

RECURSIVE OpSeqOf(_)
\* the operator sequence inside the softmax wrappers of a function
OpSeqOf(fun) == IF fun.kind = "Softmax" THEN OpSeqOf(fun.fun) ELSE fun

RECURSIVE InnerExpr(_, _)
\* the expression inside the softmax expressions built for the wrappers
InnerExpr(fun, expr) ==
  IF fun.kind = "Softmax" THEN InnerExpr(fun.fun, expr.of) ELSE expr

\* the names an operator sequence may read at operator i: its declared
\* inputs and the destinations of its operators before i
BoundBefore(f, i) ==
  {f.opInputs[j] : j \in DOMAIN f.opInputs}
    \cup {f.ops[j].dst : j \in 1..(i - 1)}

\* the matrix expression of an operator, from the compiler's variable of
\* the operator's matrix mode
MatrixOperand(op) ==
  LET v == crossCompiler.dbMatrixExpr[
             CHOOSE k \in DOMAIN crossCompiler.dbMatrixExpr :
               modeKey(k) = modeKey(op.matMode)]
  IN IF op.transpose THEN Transposed(v) ELSE v

RECURSIVE ValueOf(_, _, _)
\* what the variable var holds after the first n operators of f, read off
\* the list from operator n backwards: the product built by the latest
\* operator with destination var, else the input variable of var
ValueOf(f, n, var) ==
  IF n = 0
  THEN IF \E j \in DOMAIN f.opInputs : f.opInputs[j] = var
       THEN crossCompiler.exprArgs[CHOOSE j \in DOMAIN f.opInputs :
                                     f.opInputs[j] = var]
       ELSE [e |-> "None"]
  ELSE IF f.ops[n].dst = var
       THEN dot(ValueOf(f, n - 1, f.ops[n].src), MatrixOperand(f.ops[n]))
       ELSE ValueOf(f, n - 1, var)

\* C22: operator sequences are processed in topological, single-assignment
\* order: when the cross-compiler has processed an OpSequence, its
\* operators were handled in list order, each bound exactly its one
\* destination variable, every source an operator read was a declared
\* input or the destination of an earlier operator of the sequence, and
\* the result is the value bound to the destination of the last operator.
C22_OpsInListOrder ==
  (last.op = "xcompile" /\ ~last.err) =>
    LET f == OpSeqOf(last.fun)
        ns == last.namespaceId
        n == Len(f.ops)
    IN /\ f.kind = "OpSeq" /\ n > 0
       /\ \A i \in DOMAIN f.ops : f.ops[i].src \in BoundBefore(f, i)
       /\ DOMAIN last.thEnv =
            {internalName(ns, v) : v \in BoundBefore(f, n + 1)}
       /\ \A v \in BoundBefore(f, n + 1) :
            last.thEnv[internalName(ns, v)] = ValueOf(f, n, v)
       /\ InnerExpr(last.fun, crossCompiler.expr) = ValueOf(f, n, f.ops[n].dst)

\* a processed sequence of two operators, the second of which reads what
\* the first produced and binds the same destination again
C22_Witness ==
  /\ last.op = "xcompile" /\ ~last.err
  /\ last.fun.kind = "OpSeq" /\ Len(last.fun.ops) = 2
  /\ last.fun.ops[2].src = last.fun.ops[1].dst
  /\ last.fun.ops[2].dst = last.fun.ops[1].dst
  /\ crossCompiler.expr.l.e = "dot"


\* ------------------------------------------------------------------------
\* The rule builder (simple.py)
\* ------------------------------------------------------------------------

\* largest number of goals in a rule body written with the builder
MaxGoals == 3

\* None, and a value that is not None
None == <<>>

Some(x) == <<x>>

\* RuleWrapper(lhs, rhs, features=None, findall=None): the constructor is
\* parser.Rule's, it keeps its four arguments
RuleWrapper(lhs, rhs, features, findall) ==
  [lhs |-> lhs, rhs |-> rhs, features |-> features, findall |-> findall]

\* the builder that RuleBuilder.predicates returns for pred_name, called
\* with args (simple.py:374-379)
goal_builder(pred_name, args) ==
  RuleWrapper(None, <<Goal(pred_name, args)>>, None, None)

\* rule_id[0].upper() + rule_id[1:] on the rule ids that occur
UpperFirst == [r1 |-> "R1", r2 |-> "R2"]

\* RuleBuilder.rule_id(type_name, rule_id) (simple.py:355-368)
rule_id(type_name, id) ==
  RuleWrapper(None, <<>>,
              Some(<<Goal("weight", <<UpperFirst[id]>>)>>),
              Some(<<Goal("assign", <<UpperFirst[id], id, type_name>>)>>))

\* RuleWrapper._combine (simple.py:393-397)
RuleWrapperCombine(x, y) ==
  IF x = None THEN y
  ELSE IF y = None THEN x
  ELSE Some(x[1] \o y[1])

\* __and__ taking the features and findall of the left operand alone
RuleWrapperAndLeftFeatures(self, other) ==
  RuleWrapper(None, self.rhs \o other.rhs, self.features, self.findall)

\* RuleWrapper.__and__ (simple.py:398-403)
RuleWrapperAnd(self, other) ==
  RuleWrapper(None, self.rhs \o other.rhs,
              RuleWrapperCombine(self.features, other.features),
              RuleWrapperCombine(self.findall, other.findall))

\* RuleWrapper.__or__ (simple.py:404-405)
RuleWrapperOr(self, other) ==
  RuleWrapper(None, <<>>, Some(self.rhs), Some(other.rhs))

\* RuleWrapper.__floordiv__ (simple.py:406-412); 'if other.features' holds
\* for a list that is not empty
RuleWrapperFloordiv(self, other) ==
  IF other.features # None /\ other.features[1] # <<>>
  THEN RuleWrapper(None, self.rhs, other.features, other.findall)
  ELSE RuleWrapper(None, self.rhs, Some(other.rhs), None)

\* RuleWrapper.__le__ (simple.py:413-419)
RuleWrapperLe(self, other) ==
  IF Len(self.rhs) # 1 THEN [err |-> TRUE, rule |-> <<>>]
  ELSE [err |-> FALSE,
        rule |-> RuleWrapper(Some(self.rhs[1]), other.rhs, other.features,
                             other.findall)]

\* the goals g1, g2, ... written in rule bodies
BodyGoal(i) == goal_builder("g" \o ToString(i), <<"X", "Y">>)

\* the features written after //: a goal, a rule id, and
\* weight(F) | description(X,D) & feature(X,F)
FeatureForms ==
  <<goal_builder("f", <<"X">>),
    rule_id("rule", "r1"),
    RuleWrapperOr(goal_builder("weight", <<"F">>),
                  RuleWrapperAnd(goal_builder("description", <<"X", "D">>),
                                 goal_builder("feature", <<"X", "F">>)))>>

RECURSIVE Groupings(_, _)
\* the ways to group gi & ... & gj with parentheses: <<i>> is the goal gi,
\* <<a, b>> is (a) & (b)
Groupings(i, j) ==
  IF i = j THEN {<<i>>}
  ELSE UNION {{<<a, b>> : a \in Groupings(i, k), b \in Groupings(k + 1, j)} :
                k \in i..(j - 1)}

RECURSIVE EvalBody(_, _, _)
\* the value of a grouped conjunction in which the goal number at, if any,
\* is written g // FeatureForms[feat]
EvalBody(tree, at, feat) ==
  IF Len(tree) = 1
  THEN IF tree[1] = at
       THEN RuleWrapperFloordiv(BodyGoal(tree[1]), FeatureForms[feat])
       ELSE BodyGoal(tree[1])
  ELSE LET k(l, r) == RuleWrapperAnd(l, r)
       IN k(EvalBody(tree[1], at, feat), EvalBody(tree[2], at, feat))

\* the left operands written before <=: one goal, and two goals or a rule
\* id, which hold other than one goal
BuilderHead == goal_builder("aunt", <<"X", "Y">>)

OtherHeads ==
  {RuleWrapperAnd(goal_builder("aunt", <<"X", "Y">>),
                  goal_builder("uncle", <<"X", "Y">>)),
   rule_id("rule", "r2")}

\* the right operands of b += : head <= body, a body alone, and the tuple
\* that 'head <= g1, g2' is
BuilderInputs ==
  LET bodies == UNION {{[n |-> n, tree |-> t, at |-> a, feat |-> f] :
                          t \in Groupings(1, n), a \in 1..n,
                          f \in DOMAIN FeatureForms}
                       \cup {[n |-> n, tree |-> t, at |-> 0, feat |-> 1] :
                               t \in Groupings(1, n)} : n \in 1..MaxGoals}
  IN {[kind |-> "le", head |-> BuilderHead, body |-> b] : b \in bodies}
     \cup {[kind |-> "le", head |-> h, body |-> b] :
             h \in OtherHeads, b \in {c \in bodies : c.n = 1}}
     \cup {[kind |-> "wrapper", head |-> None, body |-> b] :
             b \in {c \in bodies : c.at = 0}}
     \cup {[kind |-> "tuple", head |-> None, body |-> None]}

\* the value of the right operand of b += , or the failure of its <=
EvalInput(x) ==
  IF x.kind = "le"
  THEN LET k(v) == [isRule |-> TRUE, err |-> v.err, rule |-> v.rule]
       IN k(RuleWrapperLe(x.head, EvalBody(x.body.tree, x.body.at, x.body.feat)))
  ELSE IF x.kind = "wrapper"
  THEN [isRule |-> TRUE, err |-> FALSE,
        rule |-> EvalBody(x.body.tree, x.body.at, x.body.feat)]
  ELSE [isRule |-> FALSE, err |-> FALSE, rule |-> <<>>]

\* b += x: the right operand is evaluated, then RuleBuilder.__iadd__
\* (simple.py:381-386) adds it to self.rules when it is a parser.Rule
IAdd(x) ==
  /\ Len(builder) < MaxRules
  /\ LET k(v) ==
           IF v.err \/ ~v.isRule
           THEN /\ builder' = builder
                /\ last' = [op |-> "iadd", x |-> x, err |-> TRUE]
           ELSE /\ builder' = Append(builder, v.rule)
                /\ last' = [op |-> "iadd", x |-> x, err |-> FALSE]
     IN k(EvalInput(x))
  /\ UNCHANGED <<function, nextId, ncalls, evalCompiles, workers, rules,
                 params, constructed, xc, maxDepth, crossCompiler>>

NextBuilder == \E x \in BuilderInputs : IAdd(x)

SpecBuilder == Init /\ [][NextBuilder]_vars

\* the goals g1, ..., gn as a rule body holds them
WrittenGoals(n) == [i \in 1..n |-> BodyGoal(i).rhs[1]]

\* the features and findall goals of the features written after //
WrittenFeatures ==
  <<[features |-> Some(<<Goal("f", <<"X">>)>>), findall |-> None],
    [features |-> Some(<<Goal("weight", <<"R1">>)>>),
     findall |-> Some(<<Goal("assign", <<"R1", "r1", "rule">>)>>)],
    [features |-> Some(<<Goal("weight", <<"F">>)>>),
     findall |-> Some(<<Goal("description", <<"X", "D">>),
                        Goal("feature", <<"X", "F">>)>>)]>>

====
